---- MODULE Spec2Model ----
(***************************************************************************)
(* The knowledge-graph management operations of lightrag/kg_manage.py:     *)
(* insert_custom_relations, update_entity, update_relation and             *)
(* _insert_done, run by callers against a shared graph store and two       *)
(* vector indexes.  Every await of the source is one step of a caller; a   *)
(* store call either completes or raises.                                  *)
(***************************************************************************)
EXTENDS Integers, Sequences, FiniteSets, TLC

VARIABLES
    nodes,      \* chunk_entity_relation_graph: node key -> attribute map
    edges,      \* chunk_entity_relation_graph: <<src, tgt>> -> attribute map
    evdb,       \* entities_vdb: record id -> payload
    rvdb,       \* relationships_vdb: record id -> payload
    st,         \* per caller: the running call, its position and its locals
    tasks,      \* per caller: the index_done_callback tasks of each _insert_done
    ev,         \* per caller: the store calls the current call has made, in order
    prev,       \* per caller: the call it completed before the current one
    calls,      \* calls started so far
    faults,     \* store calls that raised so far
    storage_insts,  \* the storages of rag that are not None
    namespace_prefix,               \* rag.namespace_prefix
    cosine_better_than_threshold,   \* the entry of rag.vector_db_storage_cls_kwargs
    req         \* per retrieval request: its position and its locals

kgVars == <<nodes, edges, evdb, rvdb, st, tasks, ev, prev, calls, faults, storage_insts>>
difyVars == <<namespace_prefix, cosine_better_than_threshold, req>>
vars == <<nodes, edges, evdb, rvdb, st, tasks, ev, prev, calls, faults, storage_insts,
          namespace_prefix, cosine_better_than_threshold, req>>

-----------------------------------------------------------------------------
(* Bounds of the model *)

MaxCalls == 2
MaxBatch == 2
MaxFaults == 1
MaxRequests == 2

AllProcs == {1, 2}
SeqProcs == {1}
Requests == 1..MaxRequests

-----------------------------------------------------------------------------
(* Text.  A string is a sequence of characters; + of the source is \o. *)

Q == "\""

UpperChar(c) ==
    CASE c = "a" -> "A"
      [] c = "b" -> "B"
      [] c = "c" -> "C"
      [] OTHER -> c

Upper(s) == [i \in 1..Len(s) |-> UpperChar(s[i])]

\* f'"{name.upper()}"'
Format(s) == <<Q>> \o Upper(s) \o <<Q>>

\* md5(content).hexdigest(): a digest that differs whenever the content differs
MdHash(content) == <<"md5", content>>

\* utils.compute_mdhash_id(content, prefix) = prefix + md5(content).hexdigest()
compute_mdhash_id(content, prefix) == <<prefix, MdHash(content)>>

-----------------------------------------------------------------------------
(* Dictionaries *)

EmptyMap == [k \in {} |-> {}]

\* d.get(k, default)
Get(d, k, default) == IF k \in DOMAIN d THEN d[k] ELSE default

\* the dictionary d after d[key] = val
Put(d, key, val) == [x \in DOMAIN d \cup {key} |-> IF x = key THEN val ELSE d[x]]

\* the dictionary d after d.update(other)
PutAll(d, other) ==
    [x \in DOMAIN d \cup DOMAIN other |-> IF x \in DOMAIN other THEN other[x] ELSE d[x]]

-----------------------------------------------------------------------------
(* The stores *)

Stores == {"entities_vdb", "relationships_vdb", "graph"}

\* has_node / get_node / has_edge / get_edge of the graph store
has_node(key) == key \in DOMAIN nodes
get_node(key) == IF key \in DOMAIN nodes THEN nodes[key] ELSE EmptyMap
has_edge(s, t) == <<s, t>> \in DOMAIN edges
get_edge(s, t) == IF <<s, t>> \in DOMAIN edges THEN edges[<<s, t>>] ELSE EmptyMap

\* the positions at which a caller awaits a call of a store
StoreCallPcs ==
    {"ue_has_node", "ue_get_node", "ue_upsert_node", "ue_vdb_upsert",
     "ur_has_src", "ur_has_tgt", "ur_has_edge", "ur_get_edge", "ur_upsert_edge",
     "ur_vdb_upsert",
     "ic_has_src", "ic_has_tgt", "ic_upsert_edge", "ic_vdb_upsert"}

\* the store a caller at pc is calling
PcStore(pc) ==
    IF pc = "ue_vdb_upsert" THEN "entities_vdb"
    ELSE IF pc \in {"ur_vdb_upsert", "ic_vdb_upsert"} THEN "relationships_vdb"
    ELSE "graph"

\* The store calls a call has made, as [t |-> kind, s |-> store, k |-> argument]:
\* a write that completed (k: the graph key written, or the mapping upserted),
\* a store call that raised, an index_done_callback that was started
WriteEv(s, k) == [t |-> "write", s |-> s, k |-> k]
RaiseEv(s) == [t |-> "raise", s |-> s, k |-> <<>>]
FinEv(s) == [t |-> "fin", s |-> s, k |-> <<>>]

\* a delete that completed (k: the graph key, or the record ids, deleted)
DeleteEv(s, k) == [t |-> "delete", s |-> s, k |-> k]

-----------------------------------------------------------------------------
(* The values callers supply *)

X == <<"x">>
Y == <<"y">>
K == <<"k">>
K2 == <<"j">>
S0 == <<"s">>
S2 == <<"t">>
T == <<"T">>
FP == <<"f">>

\* the values of the retrieval route: the namespace prefix rag is built with, the
\* knowledge ids and the score thresholds of the requests, the threshold rag may
\* be configured with (thresholds in tenths)
P0 == <<"p">>
KnowledgeIds == {<<"k1">>, <<"k2">>}
ScoreThresholds == {3, 5}
ConfiguredThresholds == {2}
CUSTOM_RELATION == <<"CUSTOM_RELATION">>

\* the names update_entity is called with: the keys of two nodes, a key no node
\* has, and the raw spelling of a node's name
EntityArgs == {Format(<<"a">>), Format(<<"b">>), Format(<<"c">>), <<"a">>}

\* the dictionary d restricted to the keys in S
Restrict(d, S) == [k \in S \cap DOMAIN d |-> d[k]]

\* entity_data of update_entity
EntityData ==
    {Restrict([description |-> d, entity_type |-> T], S) :
        d \in {X, Y}, S \in SUBSET {"description", "entity_type"}}

\* the arguments of update_entity: every entity_data for the node with attributes,
\* one for the other names, one without a description for the node without attributes
EntityCallArgs ==
    {<<Format(<<"a">>), d>> : d \in EntityData}
    \cup {<<n, [description |-> Y]>> : n \in EntityArgs}
    \cup {<<Format(<<"b">>), [entity_type |-> T]>>}

\* relation_data of update_relation
RelationData ==
    {Restrict([description |-> Y, keywords |-> K2, source_id |-> S2, weight |-> 2], S) :
        S \in {{}, {"description"}, {"source_id"}, {"weight"}, {"description", "keywords"}}}

\* (src, tgt) as callers spell them: the edge and its reverse; a missing source,
\* a missing target, both missing; the edge in another spelling
RelPairs ==
    {<<<<"a">>, <<"b">>>>, <<<<"b">>, <<"a">>>>,
     <<<<"c">>, <<"b">>>>, <<<<"a">>, <<"c">>>>, <<<<"c">>, <<"c">>>>}
PairAb == <<<<"A">>, <<"b">>>>

\* the arguments of update_relation: every relation_data for the edge, one for
\* the other pairs
RelationArgs ==
    {<<<<<<"a">>, <<"b">>>>, d>> : d \in RelationData}
    \cup {<<pr, [description |-> Y]>> : pr \in RelPairs \cup {PairAb}}

\* one relation of relations_data: weight and source_id are optional
ItemSet ==
    {[src_id |-> pr[1], tgt_id |-> pr[2], description |-> X, keywords |-> K] :
        pr \in RelPairs}
    \cup
    {[src_id |-> PairAb[1], tgt_id |-> PairAb[2], description |-> Y, keywords |-> K2,
      weight |-> 2, source_id |-> S2]}

RECURSIVE SeqsUpTo(_, _)
SeqsUpTo(S, n) ==
    IF n = 0 THEN {<<>>}
    ELSE LET shorter == SeqsUpTo(S, n - 1)
         IN  shorter \cup {Append(q, x) : q \in {r \in shorter : Len(r) = n - 1}, x \in S}

Batches == SeqsUpTo(ItemSet, MaxBatch)

\* the names the delete route is called with: two entities and a name no entity has
DeleteArgs == {<<"a">>, <<"b">>, <<"c">>}

\* the calls made where several calls follow or overlap one another: updates of
\* one entity and of one relation with different keys and with the same key,
\* batches over the pairs of two entities
PlainItem(src, tgt) == [src_id |-> src, tgt_id |-> tgt, description |-> X, keywords |-> K]
FewEntityCalls ==
    {<<Format(<<"a">>), [description |-> Y]>>,
     <<Format(<<"a">>), [entity_type |-> T]>>,
     <<Format(<<"a">>), [description |-> X, entity_type |-> T]>>}
FewRelationCalls ==
    {<<<<<<"a">>, <<"b">>>>, [description |-> Y]>>,
     <<<<<<"a">>, <<"b">>>>, [keywords |-> K2]>>,
     <<<<<<"a">>, <<"b">>>>, [description |-> X, weight |-> 2]>>}
FewBatches ==
    {<<PlainItem(<<"a">>, <<"b">>)>>,
     <<PlainItem(<<"b">>, <<"a">>)>>,
     <<[src_id |-> <<"A">>, tgt_id |-> <<"b">>, description |-> Y, keywords |-> K2,
        weight |-> 2, source_id |-> S2]>>,
     <<PlainItem(<<"b">>, <<"a">>), PlainItem(<<"a">>, <<"c">>)>>}

-----------------------------------------------------------------------------
(* The records derived from a node or an edge *)

\* the content is the description alone
EntityRecordDescriptionOnly(entity_name, node_data) ==
    [content |-> Get(node_data, "description", <<>>), entity_name |-> entity_name]

\* update_entity, lines 166-173
EntityId(entity_name) == compute_mdhash_id(entity_name, "ent-")
EntityRecord(entity_name, node_data) ==
    [content |-> entity_name \o Get(node_data, "description", <<>>),
     entity_name |-> entity_name]

\* the keywords are left out of the content
RelRecordNoKeywords(src_id, tgt_id, keywords, description) ==
    [src_id |-> src_id, tgt_id |-> tgt_id, content |-> src_id \o tgt_id \o description]

\* the pair is hashed target first
RelIdReversed(src_id, tgt_id) == compute_mdhash_id(tgt_id \o src_id, "rel-")

\* update_relation, lines 264-273; insert_custom_relations, lines 91-95
RelId(src_id, tgt_id) == compute_mdhash_id(src_id \o tgt_id, "rel-")
RelRecord(src_id, tgt_id, keywords, description) ==
    [src_id |-> src_id, tgt_id |-> tgt_id,
     content |-> keywords \o src_id \o tgt_id \o description]

\* the vector records of a graph, as the ingestion pipeline leaves them
EntityIndexOf(ns) ==
    [id \in {EntityId(n) : n \in DOMAIN ns} |->
        LET n == CHOOSE m \in DOMAIN ns : EntityId(m) = id
        IN  EntityRecord(n, ns[n])]
RelationIndexOf(es) ==
    [id \in {RelId(e[1], e[2]) : e \in DOMAIN es} |->
        LET e == CHOOSE f \in DOMAIN es : RelId(f[1], f[2]) = id
        IN  RelRecord(e[1], e[2], Get(es[e], "keywords", <<>>),
                      Get(es[e], "description", <<>>))]

-----------------------------------------------------------------------------
(* Callers *)

Snapshot == [nodes |-> nodes, edges |-> edges, evdb |-> evdb, rvdb |-> rvdb]

None == {}
Some(x) == {x}

NoResult ==
    [status |-> "none", message |-> <<"none">>, updated_data |-> None,
     added |-> <<>>, skipped |-> <<>>, total_added |-> 0, total_skipped |-> 0]

\* {"status": "failed", "message": ..., "updated_data": None}; the message is kept
\* as its fixed text (a tag) and the names formatted into it
Failed(message) == [NoResult EXCEPT !.status = "failed", !.message = message]

\* {"status": "success", "message": ..., "updated_data": data}
Success(data) ==
    [NoResult EXCEPT !.status = "success", !.message = <<"updated">>,
                     !.updated_data = Some(data)]

\* an HTTP response, or the HTTPException that becomes one; none so far
HTTPException(status_code, detail) == [status_code |-> status_code, detail |-> detail]
NoResponse == [status_code |-> 0, detail |-> <<>>]

IdleSt ==
    [pc |-> "idle", kind |-> "none", name |-> <<>>, src |-> <<>>, tgt |-> <<>>,
     data |-> EmptyMap, batch |-> <<>>, us |-> FALSE, i |-> 0,
     srcEx |-> FALSE, tgtEx |-> FALSE, cur |-> EmptyMap, upd |-> EmptyMap,
     added |-> <<>>, skipped |-> <<>>, staged |-> <<>>, removed |-> {}, round |-> 0,
     out |-> "none", result |-> NoResult, route |-> FALSE, http |-> NoResponse,
     kg |-> EmptyMap,
     pre |-> [nodes |-> EmptyMap, edges |-> EmptyMap, evdb |-> EmptyMap, rvdb |-> EmptyMap]]

NoTasks == [r \in 1..2 |-> [s \in Stores |-> "none"]]

\* what a caller keeps of the call it completed
Summary(s) ==
    [kind |-> s.kind, name |-> s.name, src |-> s.src, tgt |-> s.tgt, data |-> s.data,
     batch |-> s.batch, out |-> s.out, result |-> s.result, pre |-> s.pre]

InitGraphNodes ==
    (Format(<<"a">>) :> [description |-> X, source_id |-> S0])
    @@ (Format(<<"b">>) :> EmptyMap)

EdgeAB == <<Format(<<"a">>), Format(<<"b">>)>>

\* the edge A -> B, with its attributes or sparse
InitGraphEdges ==
    {EdgeAB :> [weight |-> 1, description |-> X, keywords |-> K, source_id |-> S0,
                file_path |-> FP],
     EdgeAB :> EmptyMap}

\* a retrieval request that has not arrived
IdleReq ==
    [pc |-> "idle", knowledge_id |-> <<>>, score_threshold |-> 0,
     original_threshold |-> None, original_prefix |-> <<>>,
     seen |-> {}, before |-> None, response |-> NoResponse]

\* the stores, with no call running
InitCalls ==
    /\ nodes = InitGraphNodes
    /\ edges \in InitGraphEdges
    /\ evdb = EntityIndexOf(nodes)
    /\ rvdb = RelationIndexOf(edges)
    /\ st = [p \in AllProcs |-> IdleSt]
    /\ tasks = [p \in AllProcs |-> NoTasks]
    /\ ev = [p \in AllProcs |-> <<>>]
    /\ prev = [p \in AllProcs |-> Summary(IdleSt)]
    /\ calls = 0
    /\ faults = 0

\* rag holds its three storages
InitKg ==
    /\ InitCalls
    /\ storage_insts = Stores

\* rag holds its three storages, or one of them is None
InitStores ==
    /\ InitCalls
    /\ namespace_prefix = P0
    /\ req = [r \in Requests |-> IdleReq]
    /\ cosine_better_than_threshold = None
    /\ storage_insts \in {Stores} \cup {Stores \ {s} : s \in Stores}

\* the rag object of the retrieval route, with no request running
InitRag ==
    /\ namespace_prefix = P0
    /\ req = [r \in Requests |-> IdleReq]

\* vector_db_storage_cls_kwargs without a cosine_better_than_threshold entry
Init ==
    /\ InitKg
    /\ InitRag
    /\ cosine_better_than_threshold = None

\* vector_db_storage_cls_kwargs with the entry, or without it
InitDify ==
    /\ InitKg
    /\ InitRag
    /\ cosine_better_than_threshold \in {None} \cup {Some(t) : t \in ConfiguredThresholds}

-----------------------------------------------------------------------------
(* _insert_done, lines 296-308 *)

\* only the storages of the vector indexes
InsertDoneVdbOnly == <<"entities_vdb", "relationships_vdb">>

\* the storage instances whose index_done_callback _insert_done gathers
InsertDoneStores == <<"entities_vdb", "relationships_vdb", "graph">>

Range(q) == {q[i] : i \in DOMAIN q}

\* lines 298-306: the storages of the list that are not None, in its order
IsInstance(s) == s \in storage_insts
InsertDoneInstances == SelectSeq(InsertDoneStores, IsInstance)

\* the tasks asyncio.gather starts: one per storage instance, all at once
NewTasks == [s \in Stores |-> IF s \in Range(InsertDoneInstances) THEN "run" ELSE "none"]
FinEvents == [i \in DOMAIN InsertDoneInstances |-> FinEv(InsertDoneInstances[i])]

\* the call is over: it returned s.result, or it raised
Done(s, out) == [s EXCEPT !.pc = "done", !.out = out]

\* await _insert_done(rag): p goes on as s, waiting at pc `at` for the gather
AwaitInsertDone(p, s, e, at) ==
    /\ st' = [st EXCEPT ![p] = [s EXCEPT !.pc = at, !.round = @ + 1]]
    /\ tasks' = [tasks EXCEPT ![p][s.round + 1] = NewTasks]
    /\ ev' = [ev EXCEPT ![p] = e \o FinEvents]

\* lines 107-111, 184-188, 284-288: the result is built; finalize, then return it
Finish(p, s, e) ==
    IF s.us
    THEN AwaitInsertDone(p, s, e, "fin")
    ELSE /\ st' = [st EXCEPT ![p] = Done(s, "returned")]
         /\ ev' = [ev EXCEPT ![p] = e]
         /\ UNCHANGED tasks

\* the except clause returns what the call has instead of raising
ExceptSwallows(p, s, e) ==
    /\ st' = [st EXCEPT ![p] = Done(s, "returned")]
    /\ ev' = [ev EXCEPT ![p] = e]
    /\ UNCHANGED tasks

\* lines 113-116, 190-193, 290-293: except Exception as e
Except(p, s, e) ==
    IF s.us
    THEN AwaitInsertDone(p, s, e, "exc_fin")
    ELSE /\ st' = [st EXCEPT ![p] = Done([s EXCEPT !.result = NoResult], "raised")]
         /\ ev' = [ev EXCEPT ![p] = e]
         /\ UNCHANGED tasks

\* the unmet precondition is raised as an exception
RaiseEarly(p, s) ==
    /\ st' = [st EXCEPT ![p] = Done([s EXCEPT !.result = NoResult], "raised")]
    /\ UNCHANGED <<tasks, ev>>

\* a return inside the try block, before any write: no except, no finalize
ReturnEarly(p, s) ==
    /\ st' = [st EXCEPT ![p] = Done(s, "returned")]
    /\ UNCHANGED <<tasks, ev>>

\* one index_done_callback completes
TaskDone(p) ==
    \E r \in 1..2, s \in Stores :
        /\ tasks[p][r][s] = "run"
        /\ tasks' = [tasks EXCEPT ![p][r][s] = "ok"]
        /\ UNCHANGED <<nodes, edges, evdb, rvdb, st, ev, prev, calls, faults, difyVars, storage_insts>>

\* one index_done_callback raises
TaskFail(p) ==
    \E r \in 1..2, s \in Stores :
        /\ tasks[p][r][s] = "run"
        /\ faults < MaxFaults
        /\ faults' = faults + 1
        /\ tasks' = [tasks EXCEPT ![p][r][s] = "failed"]
        /\ UNCHANGED <<nodes, edges, evdb, rvdb, st, ev, prev, calls, difyVars, storage_insts>>

AllOk(p, r) == \A s \in Range(InsertDoneInstances) : tasks[p][r][s] = "ok"
SomeFailed(p, r) == \E s \in Range(InsertDoneInstances) : tasks[p][r][s] = "failed"

\* asyncio.gather(*tasks) returns: every task has completed
GatherReturn(p) ==
    /\ st[p].pc \in {"fin", "exc_fin"}
    /\ AllOk(p, st[p].round)
    /\ st' = [st EXCEPT ![p] =
                IF st[p].pc = "fin"
                THEN Done(st[p], "returned")
                ELSE Done([st[p] EXCEPT !.result = NoResult], "raised")]
    /\ UNCHANGED <<nodes, edges, evdb, rvdb, tasks, ev, prev, calls, faults, difyVars, storage_insts>>

\* asyncio.gather(*tasks) raises: a task has raised; the other tasks run on
GatherRaise(p) ==
    /\ st[p].pc \in {"fin", "exc_fin"}
    /\ SomeFailed(p, st[p].round)
    /\ IF st[p].pc = "fin"
       THEN Except(p, st[p], ev[p])
       ELSE /\ st' = [st EXCEPT ![p] = Done([st[p] EXCEPT !.result = NoResult], "raised")]
            /\ UNCHANGED <<tasks, ev>>
    /\ UNCHANGED <<nodes, edges, evdb, rvdb, prev, calls, faults, difyVars, storage_insts>>

-----------------------------------------------------------------------------
(* Starting a call *)

\* a caller makes its first call
CanCall(p) == st[p].pc = "idle"

\* a caller whose call is over and, when a route made it, answered, and whose
\* finalize tasks have ended, calls again
CanCallAgain(p) ==
    /\ st[p].pc = "done"
    /\ st[p].route => st[p].http # NoResponse
    /\ calls < MaxCalls
    /\ \A r \in 1..2, s \in Stores : tasks[p][r][s] # "run"

\* the caller's record as a call of `kind` starts
Fresh(p, kind) == [IdleSt EXCEPT !.kind = kind, !.pre = Snapshot]

StartCall(p, s) ==
    /\ st' = [st EXCEPT ![p] = s]
    /\ prev' = [prev EXCEPT ![p] = Summary(st[p])]
    /\ tasks' = [tasks EXCEPT ![p] = NoTasks]
    /\ ev' = [ev EXCEPT ![p] = <<>>]
    /\ calls' = calls + 1
    /\ UNCHANGED <<nodes, edges, evdb, rvdb, faults, difyVars, storage_insts>>

-----------------------------------------------------------------------------
(* update_entity, lines 119-193 *)

\* {**entity_data, **current_node_data}: the current value wins
MergeNodeCurrentWins(current_node_data, entity_data) == PutAll(entity_data, current_node_data)

\* line 156: {**current_node_data, **entity_data}
MergeNode(current_node_data, entity_data) == PutAll(current_node_data, entity_data)

\* update_storage is left False
UpdateStorageNeverSet == FALSE

\* lines 176, 276: update_storage = True, once the graph and the vector index are written
UpdateStorageAfterUpsert == TRUE

UpdateEntityCalled(p) ==
    \E a \in EntityCallArgs :
        StartCall(p, [Fresh(p, "update_entity") EXCEPT
                        !.pc = "ue_has_node", !.name = a[1], !.data = a[2]])

CallUpdateEntity(p) == CanCall(p) /\ UpdateEntityCalled(p)
CallUpdateEntityAgain(p) == CanCallAgain(p) /\ UpdateEntityCalled(p)

\* lines 142-148
UE_HasNode(p) ==
    /\ st[p].pc = "ue_has_node"
    /\ PcStore(st[p].pc) \in storage_insts
    /\ IF has_node(st[p].name)
       THEN /\ st' = [st EXCEPT ![p].pc = "ue_get_node"]
            /\ UNCHANGED <<tasks, ev>>
       ELSE ReturnEarly(p, [st[p] EXCEPT !.result = Failed(<<"entity_missing", st[p].name>>)])
    /\ UNCHANGED <<nodes, edges, evdb, rvdb, prev, calls, faults, difyVars, storage_insts>>

\* lines 151-156
UE_GetNode(p) ==
    /\ st[p].pc = "ue_get_node"
    /\ PcStore(st[p].pc) \in storage_insts
    /\ LET current_node_data == get_node(st[p].name)
       IN  st' = [st EXCEPT ![p].pc = "ue_upsert_node",
                            ![p].cur = current_node_data,
                            ![p].upd = MergeNode(current_node_data, st[p].data)]
    /\ UNCHANGED <<nodes, edges, evdb, rvdb, tasks, ev, prev, calls, faults, difyVars, storage_insts>>

\* line 163
UE_UpsertNode(p) ==
    /\ st[p].pc = "ue_upsert_node"
    /\ PcStore(st[p].pc) \in storage_insts
    /\ nodes' = Put(nodes, st[p].name, st[p].upd)
    /\ st' = [st EXCEPT ![p].pc = "ue_vdb_upsert"]
    /\ ev' = [ev EXCEPT ![p] = Append(@, WriteEv("graph", st[p].name))]
    /\ UNCHANGED <<edges, evdb, rvdb, tasks, prev, calls, faults, difyVars, storage_insts>>

\* lines 166-188
UE_VdbUpsert(p) ==
    /\ st[p].pc = "ue_vdb_upsert"
    /\ PcStore(st[p].pc) \in storage_insts
    /\ LET entity_id == EntityId(st[p].name)
           data == entity_id :> EntityRecord(st[p].name, st[p].upd)
       IN  /\ evdb' = PutAll(evdb, data)
           /\ Finish(p, [st[p] EXCEPT !.us = UpdateStorageAfterUpsert,
                                      !.result = Success(st[p].upd)],
                     Append(ev[p], WriteEv("entities_vdb", data)))
    /\ UNCHANGED <<nodes, edges, rvdb, prev, calls, faults, difyVars, storage_insts>>

-----------------------------------------------------------------------------
(* update_relation, lines 196-293 *)

\* the edge is replaced by relation_data
MergeEdgeReplaces(current_edge_data, relation_data) == relation_data

\* lines 254-258: {**current_edge_data, **relation_data}, source_id kept when omitted
MergeEdge(current_edge_data, relation_data) ==
    LET merged == PutAll(current_edge_data, relation_data)
    IN  IF "source_id" \in DOMAIN current_edge_data /\ "source_id" \notin DOMAIN relation_data
        THEN Put(merged, "source_id", current_edge_data["source_id"])
        ELSE merged

UpdateRelationCalled(p) ==
    \E a \in RelationArgs :
        StartCall(p, [Fresh(p, "update_relation") EXCEPT
                        !.pc = "ur_has_src", !.src = a[1][1], !.tgt = a[1][2],
                        !.data = a[2]])

CallUpdateRelation(p) == CanCall(p) /\ UpdateRelationCalled(p)
CallUpdateRelationAgain(p) == CanCallAgain(p) /\ UpdateRelationCalled(p)

\* the target entity is looked at first
EndpointMessageTargetFirst(src_exists, tgt_exists, src_entity, tgt_entity) ==
    IF ~tgt_exists THEN <<"target_missing", tgt_entity>>
    ELSE <<"source_missing", src_entity>>

\* lines 225-237: the message when an entity of the relation is missing, the
\* source entity being looked at first
EndpointMessage(src_exists, tgt_exists, src_entity, tgt_entity) ==
    IF ~src_exists THEN <<"source_missing", src_entity>>
    ELSE <<"target_missing", tgt_entity>>

\* line 222
UR_HasSrc(p) ==
    /\ st[p].pc = "ur_has_src"
    /\ PcStore(st[p].pc) \in storage_insts
    /\ st' = [st EXCEPT ![p].pc = "ur_has_tgt", ![p].srcEx = has_node(Format(st[p].src))]
    /\ UNCHANGED <<nodes, edges, evdb, rvdb, tasks, ev, prev, calls, faults, difyVars, storage_insts>>

\* lines 223-237
UR_HasTgt(p) ==
    /\ st[p].pc = "ur_has_tgt"
    /\ PcStore(st[p].pc) \in storage_insts
    /\ LET src_exists == st[p].srcEx
           tgt_exists == has_node(Format(st[p].tgt))
           s == [st[p] EXCEPT !.tgtEx = tgt_exists]
       IN  IF ~src_exists \/ ~tgt_exists
           THEN ReturnEarly(p, [s EXCEPT !.result =
                    Failed(EndpointMessage(src_exists, tgt_exists, st[p].src, st[p].tgt))])
           ELSE /\ st' = [st EXCEPT ![p] = [s EXCEPT !.pc = "ur_has_edge"]]
                /\ UNCHANGED <<tasks, ev>>
    /\ UNCHANGED <<nodes, edges, evdb, rvdb, prev, calls, faults, difyVars, storage_insts>>

\* lines 240-246
UR_HasEdge(p) ==
    /\ st[p].pc = "ur_has_edge"
    /\ PcStore(st[p].pc) \in storage_insts
    /\ IF has_edge(Format(st[p].src), Format(st[p].tgt))
       THEN /\ st' = [st EXCEPT ![p].pc = "ur_get_edge"]
            /\ UNCHANGED <<tasks, ev>>
       ELSE ReturnEarly(p, [st[p] EXCEPT
                !.result = Failed(<<"relation_missing", st[p].src, st[p].tgt>>)])
    /\ UNCHANGED <<nodes, edges, evdb, rvdb, prev, calls, faults, difyVars, storage_insts>>

\* lines 249-258
UR_GetEdge(p) ==
    /\ st[p].pc = "ur_get_edge"
    /\ PcStore(st[p].pc) \in storage_insts
    /\ LET current_edge_data == get_edge(Format(st[p].src), Format(st[p].tgt))
       IN  st' = [st EXCEPT ![p].pc = "ur_upsert_edge",
                            ![p].cur = current_edge_data,
                            ![p].upd = MergeEdge(current_edge_data, st[p].data)]
    /\ UNCHANGED <<nodes, edges, evdb, rvdb, tasks, ev, prev, calls, faults, difyVars, storage_insts>>

\* line 261
UR_UpsertEdge(p) ==
    /\ st[p].pc = "ur_upsert_edge"
    /\ PcStore(st[p].pc) \in storage_insts
    /\ LET e == <<Format(st[p].src), Format(st[p].tgt)>>
       IN  /\ edges' = Put(edges, e, st[p].upd)
           /\ ev' = [ev EXCEPT ![p] = Append(@, WriteEv("graph", e))]
    /\ st' = [st EXCEPT ![p].pc = "ur_vdb_upsert"]
    /\ UNCHANGED <<nodes, evdb, rvdb, tasks, prev, calls, faults, difyVars, storage_insts>>

\* lines 264-288
UR_VdbUpsert(p) ==
    /\ st[p].pc = "ur_vdb_upsert"
    /\ PcStore(st[p].pc) \in storage_insts
    /\ LET src == Format(st[p].src)
           tgt == Format(st[p].tgt)
           data == RelId(src, tgt) :>
                       RelRecord(src, tgt, Get(st[p].upd, "keywords", <<>>),
                                 Get(st[p].upd, "description", <<>>))
       IN  /\ rvdb' = PutAll(rvdb, data)
           /\ Finish(p, [st[p] EXCEPT !.us = UpdateStorageAfterUpsert,
                                      !.result = Success(st[p].upd)],
                     Append(ev[p], WriteEv("relationships_vdb", data)))
    /\ UNCHANGED <<nodes, edges, evdb, prev, calls, faults, difyVars, storage_insts>>

-----------------------------------------------------------------------------
(* insert_custom_relations, lines 14-116 *)

\* the item is skipped only when both entities are missing
ShouldSkipWhenBothMissing(src_exists, tgt_exists) == ~src_exists /\ ~tgt_exists

\* line 55: the item is skipped
ShouldSkip(src_exists, tgt_exists) == ~src_exists \/ ~tgt_exists

\* lines 56-60: the entry of skipped_relations.  The reason of line 59 is the word
\* for "source" when the source is missing and the word for "target" otherwise,
\* followed by "entity does not exist": "source_missing" and "target_missing" here
SkippedEntry(src_id, tgt_id, src_exists) ==
    [src_id |-> src_id, tgt_id |-> tgt_id,
     reason |-> IF ~src_exists THEN "source_missing" ELSE "target_missing"]

\* break: the loop ends at the first skipped item
BreakAfterSkip(i, n) == n + 1

\* line 61: continue with the next item
NextIndexAfterSkip(i, n) == i + 1

\* the attributes of the item are merged into the attributes the edge has
EdgeDataMerging(item) ==
    PutAll(get_edge(Format(item["src_id"]), Format(item["tgt_id"])),
           [weight |-> Get(item, "weight", 1),
            description |-> item["description"],
            keywords |-> item["keywords"],
            source_id |-> Get(item, "source_id", CUSTOM_RELATION)])

\* the weight of the item is added to the weight the edge has
EdgeDataAccumulating(item) ==
    LET current == get_edge(Format(item["src_id"]), Format(item["tgt_id"]))
    IN  [weight |-> Get(item, "weight", 1) + Get(current, "weight", 0),
         description |-> item["description"],
         keywords |-> item["keywords"],
         source_id |-> Get(item, "source_id", CUSTOM_RELATION)]

\* lines 48-49, 67-72: the edge written for an item
EdgeData(item) ==
    [weight |-> Get(item, "weight", 1),
     description |-> item["description"],
     keywords |-> item["keywords"],
     source_id |-> Get(item, "source_id", CUSTOM_RELATION)]

\* lines 75-80: the entry of all_relationships_data
StagedEntry(item) ==
    [src_id |-> Format(item["src_id"]), tgt_id |-> Format(item["tgt_id"]),
     description |-> item["description"], keywords |-> item["keywords"]]

\* the record id is computed from the content of the record
DataForVdbContentKey(staged) ==
    [id \in {compute_mdhash_id(RelRecord(staged[j].src_id, staged[j].tgt_id,
                                         staged[j].keywords, staged[j].description).content,
                               "rel-") : j \in DOMAIN staged} |->
        LET last == CHOOSE j \in DOMAIN staged :
                        compute_mdhash_id(RelRecord(staged[j].src_id, staged[j].tgt_id,
                                                    staged[j].keywords,
                                                    staged[j].description).content,
                                          "rel-") = id
            dp == staged[last]
        IN  RelRecord(dp.src_id, dp.tgt_id, dp.keywords, dp.description)]

\* only the last entry of all_relationships_data is upserted
DataForVdbLastOnly(staged) ==
    LET dp == staged[Len(staged)]
    IN  RelId(dp.src_id, dp.tgt_id) :>
            RelRecord(dp.src_id, dp.tgt_id, dp.keywords, dp.description)

\* the record id is computed from the pair in the other order
DataForVdbSwappedKey(staged) ==
    [id \in {RelId(staged[j].tgt_id, staged[j].src_id) : j \in DOMAIN staged} |->
        LET last == CHOOSE j \in DOMAIN staged :
                        /\ RelId(staged[j].tgt_id, staged[j].src_id) = id
                        /\ \A k \in DOMAIN staged :
                              RelId(staged[k].tgt_id, staged[k].src_id) = id => k <= j
            dp == staged[last]
        IN  RelRecord(dp.src_id, dp.tgt_id, dp.keywords, dp.description)]

\* the record names the endpoints of the pair in the other order
DataForVdbSwappedPayload(staged) ==
    [id \in {RelId(staged[j].src_id, staged[j].tgt_id) : j \in DOMAIN staged} |->
        LET last == CHOOSE j \in DOMAIN staged :
                        /\ RelId(staged[j].src_id, staged[j].tgt_id) = id
                        /\ \A k \in DOMAIN staged :
                              RelId(staged[k].src_id, staged[k].tgt_id) = id => k <= j
            dp == staged[last]
        IN  RelRecord(dp.tgt_id, dp.src_id, dp.keywords, dp.description)]

\* lines 90-97: the dict comprehension; a later entry with the same key wins
DataForVdb(staged) ==
    [id \in {RelId(staged[j].src_id, staged[j].tgt_id) : j \in DOMAIN staged} |->
        LET last == CHOOSE j \in DOMAIN staged :
                        /\ RelId(staged[j].src_id, staged[j].tgt_id) = id
                        /\ \A k \in DOMAIN staged :
                              RelId(staged[k].src_id, staged[k].tgt_id) = id => k <= j
            dp == staged[last]
        IN  RelRecord(dp.src_id, dp.tgt_id, dp.keywords, dp.description)]

\* lines 100-105
InsertResult(s) ==
    [NoResult EXCEPT !.status = "batch", !.added = s.added, !.skipped = s.skipped,
                     !.total_added = Len(s.added), !.total_skipped = Len(s.skipped)]

\* the for loop goes on with item s.i, or ends: lines 43, 89, 100-111
Loop(p, s, e) ==
    IF s.i <= Len(s.batch)
    THEN /\ st' = [st EXCEPT ![p] = [s EXCEPT !.pc = "ic_has_src"]]
         /\ ev' = [ev EXCEPT ![p] = e]
         /\ UNCHANGED tasks
    ELSE IF s.staged # <<>>
    THEN /\ st' = [st EXCEPT ![p] = [s EXCEPT !.pc = "ic_vdb_upsert"]]
         /\ ev' = [ev EXCEPT ![p] = e]
         /\ UNCHANGED tasks
    ELSE Finish(p, [s EXCEPT !.result = InsertResult(s)], e)

\* an empty relations_data returns at once, without a store call
CallInsert(p) ==
    /\ CanCall(p)
    /\ \E b \in Batches :
        LET s == [Fresh(p, "insert_custom_relations") EXCEPT
                    !.pc = "ic_has_src", !.batch = b, !.i = 1]
        IN  StartCall(p, IF b = <<>>
                         THEN Done([s EXCEPT !.result = InsertResult(s)], "returned")
                         ELSE s)

\* the caller runs insert_custom_relations again with the batch of its last call
CallInsertAgain(p) ==
    /\ CanCallAgain(p)
    /\ st[p].kind = "insert_custom_relations"
    /\ LET s == [Fresh(p, "insert_custom_relations") EXCEPT
                    !.pc = "ic_has_src", !.batch = st[p].batch, !.i = 1]
       IN  StartCall(p, IF st[p].batch = <<>>
                        THEN Done([s EXCEPT !.result = InsertResult(s)], "returned")
                        ELSE s)

\* line 52
IC_HasSrc(p) ==
    /\ st[p].pc = "ic_has_src"
    /\ PcStore(st[p].pc) \in storage_insts
    /\ st' = [st EXCEPT ![p].pc = "ic_has_tgt",
                        ![p].srcEx = has_node(Format(st[p].batch[st[p].i]["src_id"]))]
    /\ UNCHANGED <<nodes, edges, evdb, rvdb, tasks, ev, prev, calls, faults, difyVars, storage_insts>>

\* lines 53-61
IC_HasTgt(p) ==
    /\ st[p].pc = "ic_has_tgt"
    /\ PcStore(st[p].pc) \in storage_insts
    /\ LET item == st[p].batch[st[p].i]
           src_id == Format(item["src_id"])
           tgt_id == Format(item["tgt_id"])
           src_exists == st[p].srcEx
           tgt_exists == has_node(tgt_id)
           s == [st[p] EXCEPT !.tgtEx = tgt_exists]
       IN  IF ShouldSkip(src_exists, tgt_exists)
           THEN Loop(p, [s EXCEPT !.skipped = Append(@, SkippedEntry(src_id, tgt_id, src_exists)),
                                  !.i = NextIndexAfterSkip(s.i, Len(s.batch))],
                     ev[p])
           ELSE /\ st' = [st EXCEPT ![p] = [s EXCEPT !.pc = "ic_upsert_edge"]]
                /\ UNCHANGED <<tasks, ev>>
    /\ UNCHANGED <<nodes, edges, evdb, rvdb, prev, calls, faults, difyVars, storage_insts>>

\* lines 64-86
IC_UpsertEdge(p) ==
    /\ st[p].pc = "ic_upsert_edge"
    /\ PcStore(st[p].pc) \in storage_insts
    /\ LET item == st[p].batch[st[p].i]
           entry == StagedEntry(item)
           e == <<entry.src_id, entry.tgt_id>>
       IN  /\ edges' = Put(edges, e, EdgeData(item))
           /\ Loop(p, [st[p] EXCEPT
                         !.staged = Append(@, entry),
                         !.added = Append(@, [src_id |-> entry.src_id, tgt_id |-> entry.tgt_id]),
                         !.us = TRUE,
                         !.i = @ + 1],
                   Append(ev[p], WriteEv("graph", e)))
    /\ UNCHANGED <<nodes, evdb, rvdb, prev, calls, faults, difyVars, storage_insts>>

\* lines 89-111
IC_VdbUpsert(p) ==
    /\ st[p].pc = "ic_vdb_upsert"
    /\ PcStore(st[p].pc) \in storage_insts
    /\ LET data_for_vdb == DataForVdb(st[p].staged)
       IN  /\ rvdb' = PutAll(rvdb, data_for_vdb)
           /\ Finish(p, [st[p] EXCEPT !.result = InsertResult(st[p])],
                     Append(ev[p], WriteEv("relationships_vdb", data_for_vdb)))
    /\ UNCHANGED <<nodes, edges, evdb, prev, calls, faults, difyVars, storage_insts>>

-----------------------------------------------------------------------------
(* The calls made where several calls follow or overlap one another *)

CallFewUpdateEntity(p) ==
    /\ CanCall(p)
    /\ \E a \in FewEntityCalls :
          StartCall(p, [Fresh(p, "update_entity") EXCEPT
                          !.pc = "ue_has_node", !.name = a[1], !.data = a[2]])

CallFewUpdateRelation(p) ==
    /\ CanCall(p)
    /\ \E a \in FewRelationCalls :
          StartCall(p, [Fresh(p, "update_relation") EXCEPT
                          !.pc = "ur_has_src", !.src = a[1][1], !.tgt = a[1][2],
                          !.data = a[2]])

CallFewInsert(p) ==
    /\ CanCall(p)
    /\ \E b \in FewBatches :
          StartCall(p, [Fresh(p, "insert_custom_relations") EXCEPT
                          !.pc = "ic_has_src", !.batch = b, !.i = 1])

\* a caller whose call is over makes another of these calls
CallFewUpdateEntityAgain(p) ==
    /\ CanCallAgain(p)
    /\ \E a \in FewEntityCalls :
          StartCall(p, [Fresh(p, "update_entity") EXCEPT
                          !.pc = "ue_has_node", !.name = a[1], !.data = a[2]])

CallFewUpdateRelationAgain(p) ==
    /\ CanCallAgain(p)
    /\ \E a \in FewRelationCalls :
          StartCall(p, [Fresh(p, "update_relation") EXCEPT
                          !.pc = "ur_has_src", !.src = a[1][1], !.tgt = a[1][2],
                          !.data = a[2]])

\* update_relation of a relation the insertion just made has added
CallUpdateRelationOfInserted(p) ==
    /\ CanCallAgain(p)
    /\ st[p].kind = "insert_custom_relations"
    /\ st[p].out = "returned"
    /\ \E j \in DOMAIN st[p].batch :
          /\ <<Format(st[p].batch[j]["src_id"]), Format(st[p].batch[j]["tgt_id"])>>
                \in DOMAIN edges \ DOMAIN st[p].pre.edges
          /\ StartCall(p, [Fresh(p, "update_relation") EXCEPT
                            !.pc = "ur_has_src",
                            !.src = st[p].batch[j]["src_id"],
                            !.tgt = st[p].batch[j]["tgt_id"],
                            !.data = [description |-> Y, keywords |-> K2]])

CallFewInsertAgain(p) ==
    /\ CanCallAgain(p)
    /\ \E b \in FewBatches :
          StartCall(p, [Fresh(p, "insert_custom_relations") EXCEPT
                          !.pc = "ic_has_src", !.batch = b, !.i = 1])

-----------------------------------------------------------------------------
(* POST /kg/relations: kg_routes.py lines 75-120. The handler validates the
   items and awaits rag.ainsert_custom_relations, which runs
   insert_custom_relations of kg_manage.py on the same list; everything in the
   handler is inside one try whose except clause answers any exception with
   HTTPException(500, str(e)). *)

\* line 99
RequiredFields == <<"src_id", "tgt_id", "description", "keywords">>

\* line 101: the required fields the relation lacks, in the order of line 99
MissingFields(relation) ==
    LET Lacks(f) == f \notin DOMAIN relation
    IN  SelectSeq(RequiredFields, Lacks)

\* lines 100-102: the first relation of the body that lacks a field, 0 if none
FirstInvalid(body) ==
    IF \A j \in DOMAIN body : MissingFields(body[j]) = <<>>
    THEN 0
    ELSE CHOOSE j \in DOMAIN body :
            /\ MissingFields(body[j]) # <<>>
            /\ \A k \in 1..(j - 1) : MissingFields(body[k]) = <<>>

\* str(e) of an HTTPException: its status code and its detail
StatusText(n) == IF n = 400 THEN "400" ELSE "500"
StrOfHTTPException(e) == <<StatusText(e.status_code)>> \o e.detail

\* lines 118-120: whatever was raised inside the try is answered with status 500
RouteExcept(detail) == HTTPException(500, detail)

\* the bodies posted: well-formed lists, and lists with an item that lacks fields,
\* alone or after a well-formed item
RouteBodies ==
    {<<PlainItem(<<"a">>, <<"b">>)>>,
     <<PlainItem(<<"b">>, <<"a">>), PlainItem(<<"a">>, <<"c">>)>>,
     <<[src_id |-> <<"a">>, tgt_id |-> <<"b">>]>>,
     <<PlainItem(<<"b">>, <<"a">>),
       [src_id |-> <<"a">>, tgt_id |-> <<"b">>, description |-> Y]>>,
     <<[tgt_id |-> <<"b">>, description |-> Y, keywords |-> K2],
       PlainItem(<<"b">>, <<"a">>)>>}

\* lines 98-106 and 118-120: a relation lacks a field; HTTPException(400) is raised
\* inside the try, caught by `except Exception` and answered by the except clause
PostRelationsInvalid(p) ==
    /\ CanCall(p)
    /\ \E body \in RouteBodies :
          /\ FirstInvalid(body) # 0
          /\ LET e == HTTPException(400, MissingFields(body[FirstInvalid(body)]))
             IN  StartCall(p, Done([Fresh(p, "post_relations") EXCEPT
                                      !.batch = body, !.route = TRUE,
                                      !.http = RouteExcept(StrOfHTTPException(e))],
                                   "raised"))

\* lines 98-109: every relation has the required fields; the insertion is awaited
PostRelationsValid(p) ==
    /\ CanCall(p)
    /\ \E body \in RouteBodies :
          /\ FirstInvalid(body) = 0
          /\ StartCall(p, [Fresh(p, "insert_custom_relations") EXCEPT
                            !.pc = "ic_has_src", !.batch = body, !.i = 1,
                            !.route = TRUE])

\* str(e) of the exception a call of kg_manage.py has raised (line 120, also
\* lines 73, 221 and 285): the exception of index_done_callback when the
\* _insert_done of the except clause raised, or when no store call had raised
\* and the _insert_done before the return did; else the exception of the store
\* call, which the except clause raises again
StrOfRaised(p) ==
    IF /\ \E i \in DOMAIN ev[p] : ev[p][i].t = "raise"
       /\ (st[p].round = 0 \/ ~SomeFailed(p, st[p].round))
    THEN <<"store call">>
    ELSE <<"index_done_callback">>

\* lines 111-120: the insertion has returned, or raised
PostRelationsRespond(p) ==
    /\ st[p].pc = "done"
    /\ st[p].route
    /\ st[p].kind = "insert_custom_relations"
    /\ st[p].http = NoResponse
    /\ st' = [st EXCEPT ![p].http =
                IF st[p].out = "returned"
                THEN [status_code |-> 200, detail |-> st[p].result]
                ELSE RouteExcept(StrOfRaised(p))]
    /\ UNCHANGED <<nodes, edges, evdb, rvdb, tasks, ev, prev, calls, faults, difyVars, storage_insts>>

-----------------------------------------------------------------------------
(* POST /kg/insert: kg_routes.py lines 16-73. The handler checks the keys of
   kg_data and awaits rag.ainsert_custom_kg, which is not part of the sources at
   hand. It is modelled by the data flow the specification gives for every
   write: the entities and the relationships are written to the graph under
   their normalized names, their records are upserted into the vector indexes
   under the keys of the identity hasher, and the storages are finalized.  The
   defaults of entity_type and description are those the docstring of the route
   names; chunks are kept in a store the operations modelled here never read. *)

\* line 58
KgRequiredKeys == <<"chunks", "entities", "relationships">>

\* lines 59-64: the required keys kg_data lacks, in order kg_data lacks
MissingKeys(kg_data) ==
    LET Lacks(k) == k \notin DOMAIN kg_data
    IN  SelectSeq(KgRequiredKeys, Lacks)

UNKNOWN == <<"UNKNOWN">>
NoDescription == <<"No description provided">>

\* the node and the edge written for an entity and a relationship of kg_data
KgNodeKey(entity) == Format(entity["entity_name"])
KgNodeData(entity) ==
    [entity_type |-> Get(entity, "entity_type", UNKNOWN),
     description |-> Get(entity, "description", NoDescription),
     source_id |-> Get(entity, "source_id", UNKNOWN)]
KgEdgeKey(rel) == <<Format(rel["src_id"]), Format(rel["tgt_id"])>>
KgEdgeData(rel) ==
    [weight |-> Get(rel, "weight", 1),
     description |-> rel["description"],
     keywords |-> rel["keywords"],
     source_id |-> Get(rel, "source_id", UNKNOWN)]

\* the nodes after the entities q, the edges after the relationships q, in order
RECURSIVE WithKgNodes(_, _)
WithKgNodes(ns, q) ==
    IF q = <<>> THEN ns
    ELSE WithKgNodes(Put(ns, KgNodeKey(Head(q)), KgNodeData(Head(q))), Tail(q))
RECURSIVE WithKgEdges(_, _)
WithKgEdges(es, q) ==
    IF q = <<>> THEN es
    ELSE WithKgEdges(Put(es, KgEdgeKey(Head(q)), KgEdgeData(Head(q))), Tail(q))

\* the records of the entities and of the relationships of kg_data
KgEntityRecords(q) ==
    [id \in {EntityId(KgNodeKey(q[j])) : j \in DOMAIN q} |->
        LET last == CHOOSE j \in DOMAIN q :
                        /\ EntityId(KgNodeKey(q[j])) = id
                        /\ \A k \in DOMAIN q : EntityId(KgNodeKey(q[k])) = id => k <= j
        IN  EntityRecord(KgNodeKey(q[last]), KgNodeData(q[last]))]
KgRelationRecords(q) ==
    [id \in {RelId(KgEdgeKey(q[j])[1], KgEdgeKey(q[j])[2]) : j \in DOMAIN q} |->
        LET last == CHOOSE j \in DOMAIN q :
                        /\ RelId(KgEdgeKey(q[j])[1], KgEdgeKey(q[j])[2]) = id
                        /\ \A k \in DOMAIN q :
                              RelId(KgEdgeKey(q[k])[1], KgEdgeKey(q[k])[2]) = id => k <= j
            e == KgEdgeKey(q[last])
        IN  RelRecord(e[1], e[2], q[last]["keywords"], q[last]["description"])]

\* the bodies posted: an entity alone, an entity with a relationship to it, and
\* bodies that lack a required key
KgBodies ==
    {[chunks |-> <<>>, entities |-> <<[entity_name |-> <<"c">>]>>, relationships |-> <<>>],
     [chunks |-> <<>>,
      entities |-> <<[entity_name |-> <<"c">>, entity_type |-> T, description |-> Y,
                      source_id |-> S2]>>,
      relationships |-> <<[src_id |-> <<"a">>, tgt_id |-> <<"c">>, description |-> Y,
                           keywords |-> K2, source_id |-> S2]>>],
     [entities |-> <<>>, relationships |-> <<>>],
     [chunks |-> <<>>]}

\* lines 56-64 and 71-73: a required key is missing; HTTPException(400) is raised
\* inside the try, caught by `except Exception` and answered by the except clause
PostInsertInvalid(p) ==
    /\ CanCall(p)
    /\ \E kg_data \in KgBodies :
          /\ MissingKeys(kg_data) # <<>>
          /\ LET e == HTTPException(400, <<Head(MissingKeys(kg_data))>>)
             IN  StartCall(p, Done([Fresh(p, "post_insert") EXCEPT
                                      !.kg = kg_data, !.route = TRUE,
                                      !.http = RouteExcept(StrOfHTTPException(e))],
                                   "raised"))

\* lines 56-67: kg_data has the required keys; rag.ainsert_custom_kg is awaited
PostInsertValid(p) ==
    /\ CanCall(p)
    /\ \E kg_data \in KgBodies :
          /\ MissingKeys(kg_data) = <<>>
          /\ StartCall(p, [Fresh(p, "insert_custom_kg") EXCEPT
                            !.pc = "kg_upsert_nodes", !.kg = kg_data, !.route = TRUE])

\* rag.ainsert_custom_kg: the entities are written to the graph
KG_UpsertNodes(p) ==
    /\ st[p].pc = "kg_upsert_nodes"
    /\ nodes' = WithKgNodes(nodes, st[p].kg["entities"])
    /\ st' = [st EXCEPT ![p].pc = "kg_upsert_edges"]
    /\ ev' = [ev EXCEPT ![p] =
                @ \o [j \in DOMAIN st[p].kg["entities"] |->
                        WriteEv("graph", KgNodeKey(st[p].kg["entities"][j]))]]
    /\ UNCHANGED <<edges, evdb, rvdb, tasks, prev, calls, faults, difyVars, storage_insts>>

\* rag.ainsert_custom_kg: the relationships are written to the graph
KG_UpsertEdges(p) ==
    /\ st[p].pc = "kg_upsert_edges"
    /\ edges' = WithKgEdges(edges, st[p].kg["relationships"])
    /\ st' = [st EXCEPT ![p].pc = "kg_evdb_upsert"]
    /\ ev' = [ev EXCEPT ![p] =
                @ \o [j \in DOMAIN st[p].kg["relationships"] |->
                        WriteEv("graph", KgEdgeKey(st[p].kg["relationships"][j]))]]
    /\ UNCHANGED <<nodes, evdb, rvdb, tasks, prev, calls, faults, difyVars, storage_insts>>

\* rag.ainsert_custom_kg: the records of the entities are upserted
KG_EvdbUpsert(p) ==
    /\ st[p].pc = "kg_evdb_upsert"
    /\ LET data == KgEntityRecords(st[p].kg["entities"])
       IN  /\ evdb' = PutAll(evdb, data)
           /\ ev' = [ev EXCEPT ![p] = Append(@, WriteEv("entities_vdb", data))]
    /\ st' = [st EXCEPT ![p].pc = "kg_rvdb_upsert"]
    /\ UNCHANGED <<nodes, edges, rvdb, tasks, prev, calls, faults, difyVars, storage_insts>>

\* rag.ainsert_custom_kg: the records of the relationships are upserted; then the
\* storages are finalized
KG_RvdbUpsert(p) ==
    /\ st[p].pc = "kg_rvdb_upsert"
    /\ LET data == KgRelationRecords(st[p].kg["relationships"])
       IN  /\ rvdb' = PutAll(rvdb, data)
           /\ AwaitInsertDone(p, st[p], Append(ev[p], WriteEv("relationships_vdb", data)),
                              "fin")
    /\ UNCHANGED <<nodes, edges, evdb, prev, calls, faults, difyVars, storage_insts>>

InsertCustomKgSteps(p) ==
    \/ KG_UpsertNodes(p)
    \/ KG_UpsertEdges(p)
    \/ KG_EvdbUpsert(p)
    \/ KG_RvdbUpsert(p)

\* lines 69-73: rag.ainsert_custom_kg has returned, or raised
PostInsertRespond(p) ==
    /\ st[p].pc = "done"
    /\ st[p].route
    /\ st[p].kind = "insert_custom_kg"
    /\ st[p].http = NoResponse
    /\ st' = [st EXCEPT ![p].http =
                IF st[p].out = "returned"
                THEN [status_code |-> 200, detail |-> <<"success">>]
                ELSE RouteExcept(StrOfRaised(p))]
    /\ UNCHANGED <<nodes, edges, evdb, rvdb, tasks, ev, prev, calls, faults, difyVars, storage_insts>>

-----------------------------------------------------------------------------
(* PUT /kg/entity/{entity_name} and PUT /kg/relation/{src_entity}/{tgt_entity}:
   kg_routes.py lines 185-285. The handlers decode the names of the path, the
   second also cleans relation_data, and await rag.aupdate_entity and
   rag.aupdate_relation, which run update_entity and update_relation of
   kg_manage.py; a failed result becomes HTTPException(400) or (404), which
   `except HTTPException: raise` lets through. *)

\* urllib.parse.unquote, for the escape of the double quote
RECURSIVE unquote(_)
unquote(s) ==
    IF Len(s) = 0 THEN <<>>
    ELSE IF Len(s) >= 3 /\ s[1] = "%" /\ s[2] = "2" /\ s[3] = "2"
         THEN <<Q>> \o unquote(SubSeq(s, 4, Len(s)))
         ELSE <<s[1]>> \o unquote(Tail(s))

\* float(x) of a number or of a string of one digit; None where float raises
DigitValue(c) ==
    CASE c = "0" -> 0 [] c = "1" -> 1 [] c = "2" -> 2 [] c = "3" -> 3 [] c = "4" -> 4
      [] c = "5" -> 5 [] c = "6" -> 6 [] c = "7" -> 7 [] c = "8" -> 8 [] c = "9" -> 9
      [] OTHER -> -1
Float(x) ==
    IF "num" \in DOMAIN x THEN Some(x.num)
    ELSE IF Len(x.str) = 1 /\ DigitValue(x.str[1]) >= 0 THEN Some(DigitValue(x.str[1]))
    ELSE None

\* lines 268-270: a string in double or in single quotes loses them
StripQuotes(v) ==
    IF Len(v) >= 1 /\ ((v[1] = Q /\ v[Len(v)] = Q) \/ (v[1] = "'" /\ v[Len(v)] = "'"))
    THEN SubSeq(v, 2, Len(v) - 1)
    ELSE v

\* line 264
StringFields == {"description", "keywords", "source_id"}

\* lines 251-270: processed_data, for a relation_data whose weight is a number
CleanRelationData(relation_data) ==
    [k \in DOMAIN relation_data |->
        IF k = "weight" THEN CHOOSE w \in Float(relation_data[k]) : TRUE
        ELSE IF k \in StringFields THEN StripQuotes(relation_data[k])
        ELSE relation_data[k]]

\* the requests of the two routes: names as they are in the graph, escaped, and
\* unknown; strings in quotes; weights as numbers and as strings
PutEntityArgs ==
    {<<Format(<<"a">>), [description |-> Y]>>,
     <<<<"%", "2", "2", "A", "%", "2", "2">>, [entity_type |-> T]>>,
     <<<<"a">>, [description |-> Y]>>}
PutRelationArgs ==
    {<<<<"a">>, <<"b">>, [description |-> <<Q, "y", Q>>]>>,
     <<<<"a">>, <<"b">>, [keywords |-> <<"'", "j", "'">>, weight |-> [str |-> <<"2">>]]>>,
     <<<<"a">>, <<"b">>, [description |-> Y, weight |-> [num |-> 2]]>>,
     <<<<"a">>, <<"b">>, [weight |-> [str |-> <<"w">>]]>>,
     <<<<"c">>, <<"b">>, [description |-> Y]>>}

\* lines 204-210: the name is decoded and rag.aupdate_entity is awaited
PutEntity(p) ==
    /\ CanCall(p)
    /\ \E a \in PutEntityArgs :
          StartCall(p, [Fresh(p, "update_entity") EXCEPT
                          !.pc = "ue_has_node", !.name = unquote(a[1]), !.data = a[2],
                          !.route = TRUE])

\* lines 212-221: the result of update_entity, or what it raised
PutEntityRespond(p) ==
    /\ st[p].pc = "done"
    /\ st[p].route
    /\ st[p].kind = "update_entity"
    /\ st[p].http = NoResponse
    /\ st' = [st EXCEPT ![p].http =
                IF st[p].out = "raised" THEN RouteExcept(StrOfRaised(p))
                ELSE IF st[p].result.status = "failed"
                     THEN HTTPException(400, st[p].result.message)
                     ELSE [status_code |-> 200, detail |-> st[p].result]]
    /\ UNCHANGED <<nodes, edges, evdb, rvdb, tasks, ev, prev, calls, faults, difyVars, storage_insts>>

\* lines 254-261 and 281-282: float(weight) raises; HTTPException(400) is let through
PutRelationBadWeight(p) ==
    /\ CanCall(p)
    /\ \E a \in PutRelationArgs :
          /\ "weight" \in DOMAIN a[3]
          /\ Float(a[3]["weight"]) = None
          /\ StartCall(p, Done([Fresh(p, "put_relation") EXCEPT
                                  !.src = unquote(a[1]), !.tgt = unquote(a[2]),
                                  !.route = TRUE,
                                  !.http = HTTPException(400, <<"weight">>)],
                               "raised"))

\* lines 244-274: the names are decoded, relation_data is cleaned and
\* rag.aupdate_relation is awaited
PutRelation(p) ==
    /\ CanCall(p)
    /\ \E a \in PutRelationArgs :
          /\ "weight" \in DOMAIN a[3] => Float(a[3]["weight"]) # None
          /\ StartCall(p, [Fresh(p, "update_relation") EXCEPT
                            !.pc = "ur_has_src",
                            !.src = unquote(a[1]), !.tgt = unquote(a[2]),
                            !.data = CleanRelationData(a[3]),
                            !.route = TRUE])

\* lines 276-285: the result of update_relation, or what it raised
PutRelationRespond(p) ==
    /\ st[p].pc = "done"
    /\ st[p].route
    /\ st[p].kind = "update_relation"
    /\ st[p].http = NoResponse
    /\ st' = [st EXCEPT ![p].http =
                IF st[p].out = "raised" THEN RouteExcept(StrOfRaised(p))
                ELSE IF st[p].result.status = "failed"
                     THEN HTTPException(404, st[p].result.message)
                     ELSE [status_code |-> 200, detail |-> st[p].result]]
    /\ UNCHANGED <<nodes, edges, evdb, rvdb, tasks, ev, prev, calls, faults, difyVars, storage_insts>>

-----------------------------------------------------------------------------
(* POST /retrieval: dify_routes.py lines 196-330. The handler runs without
   suspension up to `await rag.aquery(...)` (line 216) and again from the result
   of the query to its answer, the two finally clauses included. rag.aquery is
   not part of the sources at hand: it is a coroutine that reads
   rag.namespace_prefix to scope its store keys, and it is modelled with one
   suspension point, at which the handlers of other requests run. *)

\* how the query ends: a dict of contexts, a string that tells a failure, a value
\* of another type, an exception
Outcomes == {"dict", "fail", "other", "raise"}

\* lines 222-229, 232-234, 307 and 320-329: the answer for each end of the query
RetrievalResponse(outcome) ==
    IF outcome = "fail" THEN [status_code |-> 404, detail |-> <<"2001">>]
    ELSE IF outcome = "raise" THEN [status_code |-> 500, detail |-> <<"500">>]
    ELSE IF outcome = "other" THEN [status_code |-> 200, detail |-> <<>>]
    ELSE [status_code |-> 200, detail |-> <<"records">>]

InFlight(r) == req[r].pc \in {"aquery", "aquery_resumed"}

\* lines 198-216: save and override the threshold and the prefix, start the query.
\* `before` keeps the entry as it was when no request was in flight; the handler
\* has no such local, the properties of the route refer to it.
RetrievalEnter(r) ==
    /\ req[r].pc = "idle"
    /\ \E k \in KnowledgeIds, s \in ScoreThresholds :
          /\ req' = [req EXCEPT ![r] =
                        [IdleReq EXCEPT
                            !.pc = "aquery",
                            !.knowledge_id = k,
                            !.score_threshold = s,
                            !.original_threshold = cosine_better_than_threshold,
                            !.original_prefix = namespace_prefix,
                            !.seen = {k},
                            !.before =
                                IF \E o \in Requests : InFlight(o)
                                THEN req[CHOOSE o \in Requests : InFlight(o)].before
                                ELSE cosine_better_than_threshold]]
          /\ cosine_better_than_threshold' = Some(s)
          /\ namespace_prefix' = k
    /\ UNCHANGED kgVars

\* rag.aquery resumes after a suspension and goes on with the prefix rag has now
AqueryResume(r) ==
    /\ req[r].pc = "aquery"
    /\ req' = [req EXCEPT ![r].pc = "aquery_resumed",
                          ![r].seen = @ \cup {namespace_prefix}]
    /\ UNCHANGED <<kgVars, namespace_prefix, cosine_better_than_threshold>>

\* lines 216-329: the query ends; the answer is built, or the exception is caught
\* at line 321, after the finally clauses of lines 309-311 and 313-318
RetrievalExit(r) ==
    /\ req[r].pc = "aquery_resumed"
    /\ \E outcome \in Outcomes :
          req' = [req EXCEPT ![r].pc = "done",
                             ![r].seen = @ \cup {namespace_prefix},
                             ![r].response = RetrievalResponse(outcome)]
    /\ namespace_prefix' = req[r].original_prefix
    /\ cosine_better_than_threshold' =
          IF req[r].original_threshold # None
          THEN req[r].original_threshold
          ELSE cosine_better_than_threshold
    /\ UNCHANGED kgVars

-----------------------------------------------------------------------------
(* DELETE /kg/entity/{entity_name}: kg_routes.py, lines 167-183, and the entity
   deletion with cascade it awaits (rag.adelete_by_entity).  The three deletes
   of a deletion complete; its finalize calls complete or raise, and the route
   then raises. *)

\* the edges of es incident to the node key
IncidentEdges(es, key) == {e \in DOMAIN es : e[1] = key \/ e[2] = key}

\* the dictionary d without the keys in S
Without(d, S) == [k \in DOMAIN d \ S |-> d[k]]

\* {"status": "success", "message": ...} of the route
Deleted(entity_name) ==
    [NoResult EXCEPT !.status = "success", !.message = <<"deleted", entity_name>>]

DeleteEntityCalled(p) ==
    \E n \in DeleteArgs :
        StartCall(p, [Fresh(p, "delete_entity") EXCEPT !.pc = "de_graph_delete", !.name = n])

CallDeleteEntity(p) == CanCall(p) /\ DeleteEntityCalled(p)
CallDeleteEntityAgain(p) == CanCallAgain(p) /\ DeleteEntityCalled(p)

\* deleteEntityCascade(key) of the graph store: the node and its incident edges
DE_GraphDelete(p) ==
    /\ st[p].pc = "de_graph_delete"
    /\ LET key == Format(st[p].name)
           gone == IncidentEdges(edges, key)
       IN  /\ nodes' = Without(nodes, {key})
           /\ edges' = Without(edges, gone)
           /\ st' = [st EXCEPT ![p].pc = "de_evdb_delete", ![p].removed = gone,
                                ![p].us = TRUE]
           /\ ev' = [ev EXCEPT ![p] = Append(@, DeleteEv("graph", key))]
    /\ UNCHANGED <<evdb, rvdb, tasks, prev, calls, faults, difyVars, storage_insts>>

\* delete(keys) of the entity vector index: the record of the entity
DE_EvdbDelete(p) ==
    /\ st[p].pc = "de_evdb_delete"
    /\ LET ids == {EntityId(Format(st[p].name))}
       IN  /\ evdb' = Without(evdb, ids)
           /\ ev' = [ev EXCEPT ![p] = Append(@, DeleteEv("entities_vdb", ids))]
    /\ st' = [st EXCEPT ![p].pc = "de_rvdb_delete"]
    /\ UNCHANGED <<nodes, edges, rvdb, tasks, prev, calls, faults, difyVars, storage_insts>>

\* delete(keys) of the relation vector index: the records of the removed edges;
\* then finalize, and the route returns
DE_RvdbDelete(p) ==
    /\ st[p].pc = "de_rvdb_delete"
    /\ LET ids == {RelId(e[1], e[2]) : e \in st[p].removed}
       IN  /\ rvdb' = Without(rvdb, ids)
           /\ Finish(p, [st[p] EXCEPT !.result = Deleted(st[p].name)],
                     Append(ev[p], DeleteEv("relationships_vdb", ids)))
    /\ UNCHANGED <<nodes, edges, evdb, prev, calls, faults, difyVars, storage_insts>>

DeleteEntitySteps(p) ==
    \/ DE_GraphDelete(p)
    \/ DE_EvdbDelete(p)
    \/ DE_RvdbDelete(p)

-----------------------------------------------------------------------------
(* A store call raises *)

\* the awaited store call raises and leaves its store as it was
StoreFault(p) ==
    /\ st[p].pc \in StoreCallPcs
    /\ PcStore(st[p].pc) \in storage_insts
    /\ faults < MaxFaults
    /\ faults' = faults + 1
    /\ Except(p, st[p], Append(ev[p], RaiseEv(PcStore(st[p].pc))))
    /\ UNCHANGED <<nodes, edges, evdb, rvdb, prev, calls, difyVars, storage_insts>>

\* the storage is None: the attribute access of the call raises AttributeError
\* inside the try block, before anything is awaited
NoneStoreCall(p) ==
    /\ st[p].pc \in StoreCallPcs
    /\ PcStore(st[p].pc) \notin storage_insts
    /\ Except(p, st[p], Append(ev[p], RaiseEv(PcStore(st[p].pc))))
    /\ UNCHANGED <<nodes, edges, evdb, rvdb, prev, calls, faults, difyVars, storage_insts>>

-----------------------------------------------------------------------------
(* The specifications *)

UpdateEntitySteps(p) ==
    \/ UE_HasNode(p)
    \/ UE_GetNode(p)
    \/ UE_UpsertNode(p)
    \/ UE_VdbUpsert(p)

UpdateRelationSteps(p) ==
    \/ UR_HasSrc(p)
    \/ UR_HasTgt(p)
    \/ UR_HasEdge(p)
    \/ UR_GetEdge(p)
    \/ UR_UpsertEdge(p)
    \/ UR_VdbUpsert(p)

Faults(p) ==
    \/ StoreFault(p)
    \/ TaskFail(p)

InsertDoneSteps(p) ==
    \/ TaskDone(p)
    \/ GatherReturn(p)
    \/ GatherRaise(p)

\* one caller makes one call
Step(p) ==
    \/ CallUpdateEntity(p)
    \/ UE_HasNode(p)
    \/ UE_GetNode(p)
    \/ UE_UpsertNode(p)
    \/ UE_VdbUpsert(p)
    \/ CallUpdateRelation(p)
    \/ UR_HasSrc(p)
    \/ UR_HasTgt(p)
    \/ UR_HasEdge(p)
    \/ UR_GetEdge(p)
    \/ UR_UpsertEdge(p)
    \/ UR_VdbUpsert(p)
    \/ CallInsert(p)
    \/ IC_HasSrc(p)
    \/ IC_HasTgt(p)
    \/ IC_UpsertEdge(p)
    \/ IC_VdbUpsert(p)
    \/ StoreFault(p)
    \/ TaskDone(p)
    \/ TaskFail(p)
    \/ GatherReturn(p)
    \/ GatherRaise(p)

Next == \E p \in SeqProcs : Step(p)

Spec == Init /\ [][Next]_vars

\* one caller makes one call; rag may lack one of its storages
NextStores == \E p \in SeqProcs : Step(p) \/ NoneStoreCall(p)

SpecStores == InitStores /\ [][NextStores]_vars

\* one caller calls update_entity, one call after another
NextEntity ==
    \E p \in SeqProcs :
        \/ CallUpdateEntity(p)
        \/ CallUpdateEntityAgain(p)
        \/ UpdateEntitySteps(p)
        \/ InsertDoneSteps(p)
        \/ Faults(p)

SpecEntity == Init /\ [][NextEntity]_vars

\* one caller calls update_relation, one call after another
NextRelation ==
    \E p \in SeqProcs :
        \/ CallUpdateRelation(p)
        \/ CallUpdateRelationAgain(p)
        \/ UpdateRelationSteps(p)
        \/ InsertDoneSteps(p)
        \/ Faults(p)

SpecRelation == Init /\ [][NextRelation]_vars

\* one caller makes a call, then deletes entities, one after another
NextDelete ==
    \E p \in SeqProcs :
        \/ CallFewUpdateEntity(p)
        \/ CallFewUpdateRelation(p)
        \/ CallFewInsert(p)
        \/ PostInsertValid(p)
        \/ CallDeleteEntity(p)
        \/ CallDeleteEntityAgain(p)
        \/ UpdateEntitySteps(p)
        \/ UpdateRelationSteps(p)
        \/ IC_HasSrc(p)
        \/ IC_HasTgt(p)
        \/ IC_UpsertEdge(p)
        \/ IC_VdbUpsert(p)
        \/ InsertCustomKgSteps(p)
        \/ PostInsertRespond(p)
        \/ DeleteEntitySteps(p)
        \/ InsertDoneSteps(p)
        \/ Faults(p)

SpecDelete == Init /\ [][NextDelete]_vars

\* one caller runs insert_custom_relations, then runs it again with the same batch
NextInsert ==
    \E p \in SeqProcs :
        \/ CallInsert(p)
        \/ CallInsertAgain(p)
        \/ IC_HasSrc(p)
        \/ IC_HasTgt(p)
        \/ IC_UpsertEdge(p)
        \/ IC_VdbUpsert(p)
        \/ InsertDoneSteps(p)
        \/ Faults(p)

SpecInsert == Init /\ [][NextInsert]_vars

\* one caller makes calls of the three operations, one after another
NextSequence ==
    \E p \in SeqProcs :
        \/ CallFewUpdateEntity(p)
        \/ CallFewUpdateRelation(p)
        \/ CallFewInsert(p)
        \/ CallFewUpdateEntityAgain(p)
        \/ CallFewUpdateRelationAgain(p)
        \/ CallFewInsertAgain(p)
        \/ CallUpdateRelationOfInserted(p)
        \/ UpdateEntitySteps(p)
        \/ UpdateRelationSteps(p)
        \/ IC_HasSrc(p)
        \/ IC_HasTgt(p)
        \/ IC_UpsertEdge(p)
        \/ IC_VdbUpsert(p)
        \/ InsertDoneSteps(p)
        \/ Faults(p)

SpecSequence == Init /\ [][NextSequence]_vars

\* one caller makes one request of the routes that write
NextRoute ==
    \E p \in SeqProcs :
        \/ PostInsertInvalid(p)
        \/ PostInsertValid(p)
        \/ InsertCustomKgSteps(p)
        \/ PostInsertRespond(p)
        \/ PostRelationsInvalid(p)
        \/ PostRelationsValid(p)
        \/ PostRelationsRespond(p)
        \/ PutEntity(p)
        \/ UpdateEntitySteps(p)
        \/ PutEntityRespond(p)
        \/ PutRelationBadWeight(p)
        \/ PutRelation(p)
        \/ UpdateRelationSteps(p)
        \/ PutRelationRespond(p)
        \/ IC_HasSrc(p)
        \/ IC_HasTgt(p)
        \/ IC_UpsertEdge(p)
        \/ IC_VdbUpsert(p)
        \/ InsertDoneSteps(p)
        \/ Faults(p)

SpecRoute == Init /\ [][NextRoute]_vars

\* retrieval requests, one per request slot, their handlers interleaved
NextDify ==
    \E r \in Requests :
        \/ RetrievalEnter(r)
        \/ AqueryResume(r)
        \/ RetrievalExit(r)

SpecDify == InitDify /\ [][NextDify]_vars

\* two callers make one call each, their store calls interleaved; no store
\* call raises
NextConcurrent ==
    \E p \in AllProcs :
        \/ CallFewUpdateEntity(p)
        \/ CallFewUpdateRelation(p)
        \/ CallFewInsert(p)
        \/ PostInsertValid(p)
        \/ CallDeleteEntity(p)
        \/ UpdateEntitySteps(p)
        \/ UpdateRelationSteps(p)
        \/ IC_HasSrc(p)
        \/ IC_HasTgt(p)
        \/ IC_UpsertEdge(p)
        \/ IC_VdbUpsert(p)
        \/ InsertCustomKgSteps(p)
        \/ PostInsertRespond(p)
        \/ DeleteEntitySteps(p)
        \/ TaskDone(p)
        \/ GatherReturn(p)

SpecConcurrent == Init /\ [][NextConcurrent]_vars

-----------------------------------------------------------------------------
(* What a call has done, read from its store calls *)

\* the positions in ev[p] of the events of kind t on store s
EventsOf(p, t, s) == {i \in DOMAIN ev[p] : ev[p][i].t = t /\ ev[p][i].s = s}

\* the stores the call of p has written
Written(p) == {s \in Stores : EventsOf(p, "write", s) # {}}

\* how often the call of p has invoked index_done_callback on store s
FinCount(p, s) == Cardinality(EventsOf(p, "fin", s))

\* the stores the call of p has invoked index_done_callback on
Finalized(p) == {s \in Stores : FinCount(p, s) > 0}

\* the graph keys the call of p has written
GraphKeysWritten(p) == {ev[p][i].k : i \in EventsOf(p, "write", "graph")}

Returned(p) == st[p].pc = "done" /\ st[p].out = "returned"
Raised(p) == st[p].pc = "done" /\ st[p].out = "raised"

ReturnedSuccess(c) == c.out = "returned" /\ c.result.status = "success"

-----------------------------------------------------------------------------
(* C1 *)

\* prior overlaid by u1 overlaid by u2
Union3(prior, u1, u2) ==
    [k \in DOMAIN prior \cup DOMAIN u1 \cup DOMAIN u2 |->
        IF k \in DOMAIN u2 THEN u2[k]
        ELSE IF k \in DOMAIN u1 THEN u1[k]
        ELSE prior[k]]

\* p has completed update_entity(E, U1) and then update_entity(E, U2), both with
\* success, U1 and U2 having no key in common
TwoDisjointUpdates(p) ==
    /\ st[p].pc = "done"
    /\ st[p].kind = "update_entity"
    /\ prev[p].kind = "update_entity"
    /\ ReturnedSuccess(st[p])
    /\ ReturnedSuccess(prev[p])
    /\ prev[p].name = st[p].name
    /\ DOMAIN prev[p].data \cap DOMAIN st[p].data = {}

\* C1: after update_entity(E, U1) and then update_entity(E, U2) have completed, U1
\* and U2 having disjoint keys, the node of E holds every key of the prior node,
\* of U1 and of U2, each with its latest value, and the second call returns that map.
C1_DisjointUpdatesUnion ==
    \A p \in SeqProcs :
        TwoDisjointUpdates(p) =>
            LET expected == Union3(prev[p].pre.nodes[st[p].name], prev[p].data, st[p].data)
            IN  /\ st[p].name \in DOMAIN nodes
                /\ nodes[st[p].name] = expected
                /\ st[p].result.updated_data = Some(expected)

\* two such updates, both with keys, the first one replacing a prior value
C1_Witness ==
    \E p \in SeqProcs :
        /\ TwoDisjointUpdates(p)
        /\ st[p].data # EmptyMap
        /\ LET prior == prev[p].pre.nodes[st[p].name]
           IN  \E k \in DOMAIN prev[p].data \cap DOMAIN prior : prev[p].data[k] # prior[k]

-----------------------------------------------------------------------------
(* C2 *)

\* a and b carry the same source_id, or neither carries one
SameSourceId(a, b) ==
    /\ "source_id" \in DOMAIN a <=> "source_id" \in DOMAIN b
    /\ "source_id" \in DOMAIN a => a["source_id"] = b["source_id"]

\* c is a successful update_relation whose relation_data has no source_id
UpdateOmittingSourceId(c) ==
    /\ c.kind = "update_relation"
    /\ ReturnedSuccess(c)
    /\ "source_id" \notin DOMAIN c.data

EdgeOf(c) == <<Format(c.src), Format(c.tgt)>>

\* C2: a successful update_relation whose relation_data omits source_id leaves the
\* edge, and returns updated_data, with the source_id the edge had before the call;
\* so does a second such update after it.
C2_SourceIdPreserved ==
    \A p \in SeqProcs :
        (st[p].pc = "done" /\ UpdateOmittingSourceId(st[p])) =>
            LET e == EdgeOf(st[p])
            IN  /\ e \in DOMAIN edges
                /\ SameSourceId(st[p].pre.edges[e], edges[e])
                /\ \A d \in st[p].result.updated_data : SameSourceId(st[p].pre.edges[e], d)
                /\ st[p].result.updated_data # None
                /\ (UpdateOmittingSourceId(prev[p]) /\ EdgeOf(prev[p]) = e)
                      => SameSourceId(prev[p].pre.edges[e], edges[e])

\* such an update of an edge that has a source_id, changing other attributes
C2_Witness ==
    \E p \in SeqProcs :
        /\ st[p].pc = "done"
        /\ UpdateOmittingSourceId(st[p])
        /\ st[p].data # EmptyMap
        /\ "source_id" \in DOMAIN st[p].pre.edges[EdgeOf(st[p])]
        /\ UpdateOmittingSourceId(prev[p])
        /\ EdgeOf(prev[p]) = EdgeOf(st[p])

-----------------------------------------------------------------------------
(* insert_custom_relations, seen from its arguments *)

Inserting(p) == st[p].kind = "insert_custom_relations"

\* the graph key of the pair of item j of the batch of p
PairOf(p, j) == <<Format(st[p].batch[j]["src_id"]), Format(st[p].batch[j]["tgt_id"])>>

\* the entities of item j, as the graph had them when the call started
SrcExisted(p, j) == PairOf(p, j)[1] \in DOMAIN st[p].pre.nodes
TgtExisted(p, j) == PairOf(p, j)[2] \in DOMAIN st[p].pre.nodes

\* the mappings the call of p has upserted into the relation vector index
RelMappings(p) == {ev[p][i].k : i \in EventsOf(p, "write", "relationships_vdb")}

\* the upsert calls the call of p has issued to the relation vector index
RelUpsertCalls(p) ==
    EventsOf(p, "write", "relationships_vdb") \cup EventsOf(p, "raise", "relationships_vdb")

\* the for loop of p is over and the vector upsert, if any, has been issued
PastUpsert(p) ==
    /\ Inserting(p)
    /\ st[p].i > Len(st[p].batch)
    /\ st[p].pc # "ic_vdb_upsert"

-----------------------------------------------------------------------------
(* C3 *)

OneEndpointMissing(p, j) == SrcExisted(p, j) # TgtExisted(p, j)

\* the entry of a skipped list for item j, naming the side that is missing
ExpectedSkip(p, j) ==
    [src_id |-> PairOf(p, j)[1], tgt_id |-> PairOf(p, j)[2],
     reason |-> IF ~SrcExisted(p, j) THEN "source_missing" ELSE "target_missing"]

\* C3: an item of insert_custom_relations with one endpoint in the graph and the
\* other missing is listed in skipped with the missing side as the reason, and
\* neither is an edge written for its pair nor a record upserted for it.
C3_MissingEndpointSkipped ==
    \A p \in SeqProcs :
        Inserting(p) =>
            \A j \in DOMAIN st[p].batch :
                OneEndpointMissing(p, j) =>
                    /\ PairOf(p, j) \notin GraphKeysWritten(p)
                    /\ PairOf(p, j) \notin DOMAIN edges
                    /\ \A m \in RelMappings(p) :
                          /\ RelId(PairOf(p, j)[1], PairOf(p, j)[2]) \notin DOMAIN m
                          /\ \A id \in DOMAIN m : <<m[id].src_id, m[id].tgt_id>> # PairOf(p, j)
                    /\ RelId(PairOf(p, j)[1], PairOf(p, j)[2]) \notin DOMAIN rvdb
                    /\ j < st[p].i => ExpectedSkip(p, j) \in Range(st[p].skipped)
                    /\ Returned(p) => ExpectedSkip(p, j) \in Range(st[p].result.skipped)

\* a returned batch with an item whose source is missing and one whose target is
C3_Witness ==
    \E p \in SeqProcs :
        /\ Inserting(p)
        /\ Returned(p)
        /\ \E j, k \in DOMAIN st[p].batch :
              /\ ~SrcExisted(p, j) /\ TgtExisted(p, j)
              /\ SrcExisted(p, k) /\ ~TgtExisted(p, k)

-----------------------------------------------------------------------------
(* C4 *)

BothExisted(p, j) == SrcExisted(p, j) /\ TgtExisted(p, j)

RECURSIVE ExpectedAdded(_, _)
\* the added list of the first n items: the pairs whose endpoints both existed
ExpectedAdded(p, n) ==
    IF n = 0 THEN <<>>
    ELSE IF BothExisted(p, n)
    THEN Append(ExpectedAdded(p, n - 1),
                [src_id |-> PairOf(p, n)[1], tgt_id |-> PairOf(p, n)[2]])
    ELSE ExpectedAdded(p, n - 1)

\* C4: when insert_custom_relations returns, every item whose endpoints both exist
\* is an edge of the graph and listed in added, whatever items around it were
\* skipped, and total_added + total_skipped is the number of items, the totals
\* being the lengths of added and skipped.
C4_SkipsDoNotAffectOthers ==
    \A p \in SeqProcs :
        (Inserting(p) /\ Returned(p)) =>
            LET r == st[p].result
            IN  /\ \A j \in DOMAIN st[p].batch :
                      BothExisted(p, j) =>
                          /\ PairOf(p, j) \in GraphKeysWritten(p)
                          /\ PairOf(p, j) \in DOMAIN edges
                          /\ [src_id |-> PairOf(p, j)[1], tgt_id |-> PairOf(p, j)[2]]
                                \in Range(r.added)
                /\ r.added = ExpectedAdded(p, Len(st[p].batch))
                /\ r.total_added + r.total_skipped = Len(st[p].batch)
                /\ r.total_added = Len(r.added)
                /\ r.total_skipped = Len(r.skipped)

\* a returned batch whose first item was skipped and whose second was added
C4_Witness ==
    \E p \in SeqProcs :
        /\ Inserting(p)
        /\ Returned(p)
        /\ Len(st[p].batch) = 2
        /\ ~BothExisted(p, 1)
        /\ BothExisted(p, 2)
        /\ st[p].result.total_added = 1
        /\ st[p].result.total_skipped = 1

-----------------------------------------------------------------------------
(* C5 *)

AddedPairs(p) == {<<a.src_id, a.tgt_id>> : a \in Range(st[p].added)}
SkippedPairs(p) == {<<a.src_id, a.tgt_id>> : a \in Range(st[p].skipped)}

\* C5: insert_custom_relations issues at most one upsert to the relation vector
\* index; once its loop is over it has issued exactly one if an item was added and
\* none otherwise; the mapping upserted holds one record for each distinct pair
\* added and none for a skipped item.
C5_SingleBatchedUpsert ==
    \A p \in SeqProcs :
        Inserting(p) =>
            /\ Cardinality(RelUpsertCalls(p)) <= 1
            /\ PastUpsert(p) =>
                  Cardinality(RelUpsertCalls(p)) = IF st[p].added # <<>> THEN 1 ELSE 0
            /\ \A m \in RelMappings(p) :
                  /\ DOMAIN m = {RelId(pr[1], pr[2]) : pr \in AddedPairs(p)}
                  /\ Cardinality(DOMAIN m) = Cardinality(AddedPairs(p))
                  /\ \A id \in DOMAIN m : <<m[id].src_id, m[id].tgt_id>> \in AddedPairs(p)
                  /\ \A pr \in SkippedPairs(p) : RelId(pr[1], pr[2]) \notin DOMAIN m

\* a returned batch of two added items with different pairs, upserted in one call
C5_Witness ==
    \E p \in SeqProcs :
        /\ Inserting(p)
        /\ Returned(p)
        /\ Len(st[p].added) = 2
        /\ Cardinality(AddedPairs(p)) = 2
        /\ Cardinality(RelUpsertCalls(p)) = 1
        /\ \E m \in RelMappings(p) : Cardinality(DOMAIN m) = 2

\* a returned batch whose two added items name the same pair in two spellings
C5_DuplicatePairReached ==
    \E p \in SeqProcs :
        /\ Inserting(p)
        /\ Returned(p)
        /\ Len(st[p].added) = 2
        /\ Cardinality(AddedPairs(p)) = 1

-----------------------------------------------------------------------------
(* C6 *)

Updating(p) == st[p].kind \in {"update_entity", "update_relation"}

\* C6: a call of insert_custom_relations that has written to a store invokes
\* index_done_callback exactly once on each store it wrote, whether it returns or
\* raises, and one that wrote nothing invokes none; update_entity and
\* update_relation invoke it at most once on a store.
C6_FinalizeExactlyOnce ==
    \A p \in SeqProcs :
        /\ (Inserting(p) /\ st[p].pc = "done") =>
              IF Written(p) # {}
              THEN \A s \in Written(p) : FinCount(p, s) = 1
              ELSE \A s \in Stores : FinCount(p, s) = 0
        /\ Updating(p) => \A s \in Stores : FinCount(p, s) <= 1

\* the part of C6 the code keeps: a call that wrote nothing finalizes nothing, and
\* no call invokes index_done_callback more than twice on a store
C6_FinalizeBounds ==
    \A p \in SeqProcs :
        /\ Written(p) = {} => Finalized(p) = {}
        /\ \A s \in Stores : FinCount(p, s) <= 2

-----------------------------------------------------------------------------
(* C7 *)

\* C7: when update_entity or update_relation raises after its graph write, it has
\* invoked index_done_callback on the stores it wrote.
C7_FinalizeAfterFailedUpdate ==
    \A p \in SeqProcs :
        (Updating(p) /\ Raised(p) /\ "graph" \in Written(p)) =>
            \A s \in Written(p) : FinCount(p, s) >= 1

-----------------------------------------------------------------------------
(* C8 *)

\* C8 as stated, of a call that returns: the stores it invoked finalize on are
\* the stores it wrote; finalize is invoked on no store it did not write.
C8_FinalizedEqualsWritten ==
    \A p \in SeqProcs : Returned(p) => Finalized(p) = Written(p)

\* C8 as amended: a call finalizes no store or every storage rag holds (all three
\* unless one is None), each as often as the others, whichever of them it wrote;
\* a call that returns after a write has finalized all of them.
C8_FinalizedAllOrNone ==
    \A p \in SeqProcs :
        /\ Finalized(p) \in {{}, storage_insts}
        /\ \A s, t \in storage_insts : FinCount(p, s) = FinCount(p, t)
        /\ (Returned(p) /\ Written(p) # {}) => Finalized(p) = storage_insts

\* update_entity has returned: it wrote the graph and the entity index, and
\* finalized the relation index as well
C8_Witness ==
    \E p \in SeqProcs :
        /\ st[p].kind = "update_entity"
        /\ Returned(p)
        /\ Written(p) = {"graph", "entities_vdb"}
        /\ Finalized(p) = Stores

\* rag has no relation index: update_entity has returned and finalized the two
\* storages there are
C8_TwoStoragesFinalized ==
    \E p \in SeqProcs :
        /\ st[p].kind = "update_entity"
        /\ Returned(p)
        /\ storage_insts = {"graph", "entities_vdb"}
        /\ Finalized(p) = storage_insts

-----------------------------------------------------------------------------
(* C9 *)

\* the call of p returned a success, or a batch with an added item
SucceededWithWrite(p) ==
    /\ Returned(p)
    /\ \/ st[p].result.status = "success"
       \/ Inserting(p) /\ st[p].result.total_added >= 1

\* the vector index a call of this kind upserts into
VdbOf(kind) == IF kind = "update_entity" THEN "entities_vdb" ELSE "relationships_vdb"

\* C9: a call that returns success (or a batch with an added item) has written the
\* graph and upserted the vector index without any store call raising, has invoked
\* finalize after its last write, on every storage rag holds, and every finalize
\* call completed before it returned.
C9_SuccessFinalizedLast ==
    \A p \in SeqProcs :
        SucceededWithWrite(p) =>
            /\ EventsOf(p, "write", "graph") # {}
            /\ EventsOf(p, "write", VdbOf(st[p].kind)) # {}
            /\ \A i \in DOMAIN ev[p] : ev[p][i].t # "raise"
            /\ storage_insts # {}
            /\ \A s \in storage_insts :
                  /\ FinCount(p, s) = 1
                  /\ tasks[p][1][s] = "ok"
                  /\ \A i \in EventsOf(p, "fin", s) :
                        \A j \in DOMAIN ev[p] : ev[p][j].t = "write" => j < i

\* update_relation returned success; a batch returned with an added item
C9_Witness ==
    \E p \in SeqProcs :
        /\ SucceededWithWrite(p)
        /\ st[p].kind = "update_relation"
        /\ st[p].data # EmptyMap

-----------------------------------------------------------------------------
(* C10 *)

\* C10: a call is over only when every index_done_callback it started has
\* completed or failed.
C10_NoFinalizeRunningAtEnd ==
    \A p \in SeqProcs :
        st[p].pc = "done" => \A r \in 1..2, s \in Stores : tasks[p][r][s] # "run"

\* the part of C10 the code keeps: _insert_done starts the finalize calls of all
\* its stores together, and a call that returns a result has none still running
C10_StartedTogether ==
    \A p \in SeqProcs :
        /\ \A r \in 1..2 :
              \/ \A s \in Stores : tasks[p][r][s] = "none"
              \/ \A s \in Stores : tasks[p][r][s] # "none"
        /\ Returned(p) => \A r \in 1..2, s \in Stores : tasks[p][r][s] # "run"

-----------------------------------------------------------------------------
(* C11 *)

\* the positions in ev[p] of the store calls that raised
RaiseEvents(p) == {i \in DOMAIN ev[p] : ev[p][i].t = "raise"}

\* update_entity was called by p for a name that had no node
MissingEntityUpdate(p) ==
    /\ st[p].kind = "update_entity"
    /\ st[p].name \notin DOMAIN st[p].pre.nodes

\* C11: update_entity for a name without a node writes no store, invokes no
\* finalize and leaves the three stores as they were; when its existence check
\* answers, it returns status "failed" with updated_data None and does not raise.
C11_MissingEntityFails ==
    \A p \in SeqProcs :
        MissingEntityUpdate(p) =>
            /\ Written(p) = {}
            /\ Finalized(p) = {}
            /\ tasks[p] = NoTasks
            /\ Snapshot = st[p].pre
            /\ (st[p].pc = "done" /\ RaiseEvents(p) = {}) =>
                  /\ st[p].out = "returned"
                  /\ st[p].result.status = "failed"
                  /\ st[p].result.updated_data = None
                  /\ st[p].result.message = <<"entity_missing", st[p].name>>

\* update_entity returned for the raw spelling of an existing entity's name,
\* which is not a key of the graph
C11_Witness ==
    \E p \in SeqProcs :
        /\ MissingEntityUpdate(p)
        /\ Returned(p)
        /\ st[p].name = <<"a">>
        /\ Format(st[p].name) \in DOMAIN nodes

-----------------------------------------------------------------------------
(* C12 *)

\* the first precondition of update_relation(src, tgt) the graph g does not
\* meet, as the message of its failure; <<>> when g meets all three
FirstUnmet(g, src, tgt) ==
    IF Format(src) \notin DOMAIN g.nodes THEN <<"source_missing", src>>
    ELSE IF Format(tgt) \notin DOMAIN g.nodes THEN <<"target_missing", tgt>>
    ELSE IF <<Format(src), Format(tgt)>> \notin DOMAIN g.edges
    THEN <<"relation_missing", src, tgt>>
    ELSE <<>>

\* update_relation was called by p with a precondition unmet
UnmetRelationUpdate(p) ==
    /\ st[p].kind = "update_relation"
    /\ FirstUnmet(st[p].pre, st[p].src, st[p].tgt) # <<>>

\* C12: update_relation with an unmet precondition returns status "failed" with
\* the message of the first unmet one in the order source entity, target entity,
\* edge (the three messages differ); it writes no store, invokes no finalize and,
\* its store calls answering, does not raise.
C12_PreconditionsInOrder ==
    \A p \in SeqProcs :
        UnmetRelationUpdate(p) =>
            /\ Written(p) = {}
            /\ Finalized(p) = {}
            /\ tasks[p] = NoTasks
            /\ Snapshot = st[p].pre
            /\ (st[p].pc = "done" /\ RaiseEvents(p) = {}) =>
                  /\ st[p].out = "returned"
                  /\ st[p].result.status = "failed"
                  /\ st[p].result.updated_data = None
                  /\ st[p].result.message = FirstUnmet(st[p].pre, st[p].src, st[p].tgt)

\* update_relation returned for two entities that are both missing
C12_Witness ==
    \E p \in SeqProcs :
        /\ UnmetRelationUpdate(p)
        /\ Returned(p)
        /\ Format(st[p].src) \notin DOMAIN nodes
        /\ Format(st[p].tgt) \notin DOMAIN nodes
        /\ st[p].result.message[1] = "source_missing"

\* update_relation returned for two existing entities without an edge
C12_EdgeFailureReached ==
    \E p \in SeqProcs :
        /\ UnmetRelationUpdate(p)
        /\ Returned(p)
        /\ st[p].result.message[1] = "relation_missing"

-----------------------------------------------------------------------------
(* C13 *)

\* a store call of the call of p raised, or an index_done_callback it started
Faulted(p) ==
    \/ RaiseEvents(p) # {}
    \/ \E r \in 1..2, s \in Stores : tasks[p][r][s] = "failed"

\* C13: a call in which a graph, vector-index or finalize call raised ends by
\* raising and hands no result to its caller; a call that returns a result had
\* no store call raise.
C13_FaultsPropagate ==
    \A p \in SeqProcs :
        /\ (st[p].pc = "done" /\ Faulted(p)) =>
              /\ st[p].out = "raised"
              /\ st[p].result = NoResult
        /\ Returned(p) => ~Faulted(p)

\* insert_custom_relations raised after an edge write, its vector upsert having
\* raised; the except clause finalized
C13_Witness ==
    \E p \in SeqProcs :
        /\ Inserting(p)
        /\ Raised(p)
        /\ EventsOf(p, "write", "graph") # {}
        /\ EventsOf(p, "raise", "relationships_vdb") # {}
        /\ Finalized(p) = Stores

-----------------------------------------------------------------------------
(* C14 *)

\* the delete route has returned to p
DeleteReturned(p) == st[p].kind = "delete_entity" /\ Returned(p)

\* the positions in ev[p] of the deletes issued to store s
DeletesOf(p, s) == EventsOf(p, "delete", s)

\* no record of the two vector indexes refers to the entity with graph key E
NoRecordRefers(E) ==
    /\ \A id \in DOMAIN evdb : evdb[id].entity_name # E
    /\ \A id \in DOMAIN rvdb : rvdb[id].src_id # E /\ rvdb[id].tgt_id # E

-----------------------------------------------------------------------------
(* C15 *)

\* both endpoints of the edge e are nodes of the graph
EndpointsPresent(e) == e[1] \in DOMAIN nodes /\ e[2] \in DOMAIN nodes

\* C15: every edge insert_custom_relations has written, and that the graph
\* holds, has both its endpoints present as nodes, whatever other calls run
\* between the existence checks and the edge write.
C15_EdgesHaveEndpoints ==
    \A p \in AllProcs :
        Inserting(p) =>
            \A e \in GraphKeysWritten(p) \cap DOMAIN edges : EndpointsPresent(e)

\* the part of C15 the code keeps: the endpoints of an edge a batch writes were
\* nodes when the batch looked for them
C15_EndpointsWereChecked ==
    \A p \in AllProcs :
        (Inserting(p) /\ st[p].pc = "ic_upsert_edge") => (st[p].srcEx /\ st[p].tgtEx)

-----------------------------------------------------------------------------
(* C16 *)

\* the graph key of the record an update call works on
RecordKey(c) == IF c.kind = "update_entity" THEN c.name ELSE EdgeOf(c)

\* the record of the graph the update call c works on, as it is now
RecordNow(c) ==
    IF c.kind = "update_entity" THEN get_node(c.name)
    ELSE get_edge(Format(c.src), Format(c.tgt))

\* p and q have both run a merge-update of the same record to success, their
\* attribute keys disjoint
BothUpdated(p, q) ==
    /\ p # q
    /\ st[p].kind \in {"update_entity", "update_relation"}
    /\ st[q].kind = st[p].kind
    /\ RecordKey(st[p]) = RecordKey(st[q])
    /\ st[p].pc = "done" /\ ReturnedSuccess(st[p])
    /\ st[q].pc = "done" /\ ReturnedSuccess(st[q])
    /\ DOMAIN st[p].data \cap DOMAIN st[q].data = {}

\* the map m holds every field of the update data d
HoldsFields(m, d) == \A k \in DOMAIN d : k \in DOMAIN m /\ m[k] = d[k]

\* m is the map c overlaid by the update data d
IsOverlay(m, c, d) ==
    /\ DOMAIN m = DOMAIN c \cup DOMAIN d
    /\ HoldsFields(m, d)
    /\ \A k \in DOMAIN c \ DOMAIN d : m[k] = c[k]

\* C16 as stated: after two concurrent merge-updates of one record with disjoint
\* keys have both returned success, the record holds the fields of both.
C16_NoLostUpdate ==
    \A p, q \in AllProcs :
        BothUpdated(p, q) =>
            /\ HoldsFields(RecordNow(st[p]), st[p].data)
            /\ HoldsFields(RecordNow(st[p]), st[q].data)

\* C16 as amended: the record is the merged map of one of the two calls, which
\* is what that call read overlaid by its own fields; it holds that call's
\* fields, and the other call's fields exactly when that call had read them.
C16_LastWriterWins ==
    \A p, q \in AllProcs :
        BothUpdated(p, q) =>
            /\ IsOverlay(st[p].upd, st[p].cur, st[p].data)
            /\ RecordNow(st[p]) \in {st[p].upd, st[q].upd}
            /\ RecordNow(st[p]) = st[p].upd =>
                  /\ HoldsFields(RecordNow(st[p]), st[p].data)
                  /\ HoldsFields(RecordNow(st[p]), st[q].data)
                        <=> HoldsFields(st[p].cur, st[q].data)

\* two update_entity calls have returned and the node lacks a field of one of
\* them: the other had read the node before that field was written
C16_Witness ==
    \E p, q \in AllProcs :
        /\ BothUpdated(p, q)
        /\ st[p].kind = "update_entity"
        /\ RecordNow(st[p]) = st[p].upd
        /\ ~HoldsFields(RecordNow(st[p]), st[q].data)
        /\ ~HoldsFields(st[p].cur, st[q].data)

\* two update_relation calls have returned and the edge holds the fields of both
C16_BothKeptReached ==
    \E p, q \in AllProcs :
        /\ BothUpdated(p, q)
        /\ st[p].kind = "update_relation"
        /\ st[p].data # EmptyMap /\ st[q].data # EmptyMap
        /\ HoldsFields(RecordNow(st[p]), st[p].data)
        /\ HoldsFields(RecordNow(st[p]), st[q].data)

-----------------------------------------------------------------------------
(* C17 *)

\* the mappings the call of p has upserted into the vector index s
Mappings(p, s) == {ev[p][i].k : i \in EventsOf(p, "write", s)}

\* p has run a merge-update to success
UpdateSucceeded(p) == Updating(p) /\ st[p].pc = "done" /\ ReturnedSuccess(st[p])

Description(m) == Get(m, "description", <<>>)

\* C17 as stated: a record is upserted under the prefixed hash of its content,
\* name + description for an entity and keywords + src_id + tgt_id + description
\* for a relation.
C17_KeyIsContentHash ==
    \A p \in SeqProcs :
        /\ \A m \in Mappings(p, "entities_vdb") :
              \A id \in DOMAIN m : id = compute_mdhash_id(m[id].content, "ent-")
        /\ \A m \in Mappings(p, "relationships_vdb") :
              \A id \in DOMAIN m : id = compute_mdhash_id(m[id].content, "rel-")

\* C17 as amended: an entity record is upserted under the "ent-" hash of the
\* entity name and a relation record under the "rel-" hash of src_id + tgt_id;
\* the description is part of the content only, so a merge-update writes the
\* record under the key it had before, whether or not the description changed,
\* and adds no record beside it.
C17_KeyIsNameHash ==
    \A p \in SeqProcs :
        /\ \A m \in Mappings(p, "entities_vdb") :
              \A id \in DOMAIN m : id = compute_mdhash_id(m[id].entity_name, "ent-")
        /\ \A m \in Mappings(p, "relationships_vdb") :
              \A id \in DOMAIN m :
                  id = compute_mdhash_id(m[id].src_id \o m[id].tgt_id, "rel-")
        /\ (UpdateSucceeded(p) /\ st[p].kind = "update_entity") =>
              /\ compute_mdhash_id(st[p].name, "ent-") \in DOMAIN st[p].pre.evdb
              /\ Mappings(p, "entities_vdb") # {}
              /\ \A m \in Mappings(p, "entities_vdb") :
                    DOMAIN m = {compute_mdhash_id(st[p].name, "ent-")}
              /\ DOMAIN evdb = DOMAIN st[p].pre.evdb
        /\ (UpdateSucceeded(p) /\ st[p].kind = "update_relation") =>
              /\ compute_mdhash_id(Format(st[p].src) \o Format(st[p].tgt), "rel-")
                    \in DOMAIN st[p].pre.rvdb
              /\ Mappings(p, "relationships_vdb") # {}
              /\ \A m \in Mappings(p, "relationships_vdb") :
                    DOMAIN m = {compute_mdhash_id(Format(st[p].src) \o Format(st[p].tgt), "rel-")}
              /\ DOMAIN rvdb = DOMAIN st[p].pre.rvdb

\* update_relation succeeded with a description other than the edge had: the
\* record has the new content under the key it had
C17_Witness ==
    \E p \in SeqProcs :
        /\ UpdateSucceeded(p)
        /\ st[p].kind = "update_relation"
        /\ "description" \in DOMAIN st[p].data
        /\ Description(st[p].pre.edges[EdgeOf(st[p])]) # st[p].data["description"]
        /\ \E id \in DOMAIN rvdb :
              /\ id \in DOMAIN st[p].pre.rvdb
              /\ rvdb[id].content # st[p].pre.rvdb[id].content

-----------------------------------------------------------------------------
(* C18 *)

\* C18: a successful update_entity(E, U) on a node with attributes C returns C
\* overlaid by U, leaves exactly that map in the graph under the key E and no
\* other key changed, and upserts one entity record whose content is E followed
\* by the merged description (nothing when there is none) and whose entity_name
\* is E.
C18_UpdateEntityOverlay ==
    \A p \in SeqProcs :
        (UpdateSucceeded(p) /\ st[p].kind = "update_entity") =>
            LET E == st[p].name
                C == st[p].pre.nodes[E]
                U == st[p].data
            IN  /\ st[p].result.updated_data # None
                /\ \A d \in st[p].result.updated_data :
                      /\ IsOverlay(d, C, U)
                      /\ nodes = [st[p].pre.nodes EXCEPT ![E] = d]
                      /\ GraphKeysWritten(p) = {E}
                      /\ Cardinality(EventsOf(p, "write", "entities_vdb")) = 1
                      /\ \A m \in Mappings(p, "entities_vdb") :
                            /\ Cardinality(DOMAIN m) = 1
                            /\ \A id \in DOMAIN m :
                                  /\ m[id].entity_name = E
                                  /\ m[id].content =
                                        E \o (IF "description" \in DOMAIN d
                                              THEN d["description"] ELSE <<>>)
                                  /\ id \in DOMAIN evdb
                                  /\ evdb[id] = m[id]

\* update_entity replaced the description of a node and kept its source_id
C18_Witness ==
    \E p \in SeqProcs :
        /\ UpdateSucceeded(p)
        /\ st[p].kind = "update_entity"
        /\ "description" \in DOMAIN st[p].data
        /\ "description" \in DOMAIN st[p].pre.nodes[st[p].name]
        /\ st[p].data["description"] # st[p].pre.nodes[st[p].name]["description"]
        /\ "source_id" \in DOMAIN nodes[st[p].name]
        /\ "source_id" \notin DOMAIN st[p].data

\* update_entity succeeded on a node whose merged map has no description
C18_NoDescriptionReached ==
    \E p \in SeqProcs :
        /\ UpdateSucceeded(p)
        /\ st[p].kind = "update_entity"
        /\ "description" \notin DOMAIN nodes[st[p].name]
        /\ \E id \in DOMAIN evdb : evdb[id].content = st[p].name

-----------------------------------------------------------------------------
(* C19 *)

\* every caller has made a call of the three operations and it has returned,
\* a merge-update with success
AllSucceeded ==
    \A p \in AllProcs :
        /\ Returned(p)
        /\ \/ Inserting(p)
           \/ Updating(p) /\ st[p].result.status = "success"

\* the entities and the relations the call of p has written
EntitiesTouched(p) == IF st[p].kind = "update_entity" THEN {st[p].name} ELSE {}
RelationsTouched(p) ==
    IF st[p].kind = "update_relation" THEN {EdgeOf(st[p])}
    ELSE IF Inserting(p) THEN AddedPairs(p)
    ELSE {}

\* the attributes the call of p has written to the graph for the edge e
EdgeAttrsWritten(p, e) ==
    IF st[p].kind = "update_relation" THEN {st[p].upd}
    ELSE {[weight |-> Get(st[p].batch[j], "weight", 1),
           description |-> st[p].batch[j]["description"],
           keywords |-> st[p].batch[j]["keywords"],
           source_id |-> Get(st[p].batch[j], "source_id", CUSTOM_RELATION)] :
             j \in {i \in DOMAIN st[p].batch : PairOf(p, i) = e}}

\* the vector record that projects the attributes a of entity E, of relation e
EntityProjection(E, a) == [content |-> E \o Description(a), entity_name |-> E]
RelationProjection(e, a) ==
    [src_id |-> e[1], tgt_id |-> e[2],
     content |-> Get(a, "keywords", <<>>) \o e[1] \o e[2] \o Description(a)]

\* the vector record of entity E, of relation e, is the projection of what the
\* graph holds for it
EntityCoherent(E) ==
    /\ E \in DOMAIN nodes
    /\ compute_mdhash_id(E, "ent-") \in DOMAIN evdb
    /\ evdb[compute_mdhash_id(E, "ent-")] = EntityProjection(E, nodes[E])
RelationCoherent(e) ==
    /\ e \in DOMAIN edges
    /\ compute_mdhash_id(e[1] \o e[2], "rel-") \in DOMAIN rvdb
    /\ rvdb[compute_mdhash_id(e[1] \o e[2], "rel-")] = RelationProjection(e, edges[e])

\* C19 as stated: once the concurrent calls have all returned successfully, the
\* vector record of every entity and relation they touched is the projection of
\* its current graph attributes.
C19_CoherentAfterConcurrentCalls ==
    AllSucceeded =>
        \A p \in AllProcs :
            /\ \A E \in EntitiesTouched(p) : EntityCoherent(E)
            /\ \A e \in RelationsTouched(p) : RelationCoherent(e)

\* C19 as amended: the graph record and the vector record of a touched entity or
\* relation are each what one of the calls that touched it wrote, the vector
\* record being the projection of that call's graph attributes; they agree when
\* one call alone touched the record.
C19_RecordsFromTheCalls ==
    AllSucceeded =>
        \A p \in AllProcs :
            /\ \A E \in EntitiesTouched(p) :
                  LET touching == {q \in AllProcs : E \in EntitiesTouched(q)}
                      id == compute_mdhash_id(E, "ent-")
                  IN  /\ E \in DOMAIN nodes
                      /\ nodes[E] \in {st[q].upd : q \in touching}
                      /\ id \in DOMAIN evdb
                      /\ evdb[id] \in {EntityProjection(E, st[q].upd) : q \in touching}
                      /\ touching = {p} => EntityCoherent(E)
            /\ \A e \in RelationsTouched(p) :
                  LET touching == {q \in AllProcs : e \in RelationsTouched(q)}
                      id == compute_mdhash_id(e[1] \o e[2], "rel-")
                      written == UNION {EdgeAttrsWritten(q, e) : q \in touching}
                  IN  /\ e \in DOMAIN edges
                      /\ edges[e] \in written
                      /\ id \in DOMAIN rvdb
                      /\ rvdb[id] \in {RelationProjection(e, a) : a \in written}
                      /\ touching = {p} => RelationCoherent(e)

\* two update_entity calls on one entity have returned success and its vector
\* record is not the projection of the node: the call whose node write came
\* first upserted its record last
C19_Witness ==
    /\ AllSucceeded
    /\ \E p, q \in AllProcs :
          /\ p # q
          /\ st[p].kind = "update_entity"
          /\ st[q].kind = "update_entity"
          /\ st[p].name = st[q].name
          /\ nodes[st[p].name] = st[p].upd
          /\ evdb[compute_mdhash_id(st[p].name, "ent-")]
                = EntityProjection(st[p].name, st[q].upd)
          /\ ~EntityCoherent(st[p].name)

\* a batch and an update_relation on its pair have returned, the records of the
\* pair agreeing; a batch alone touched a second pair
C19_CoherentReached ==
    /\ AllSucceeded
    /\ \E p, q \in AllProcs :
          /\ Inserting(p)
          /\ st[q].kind = "update_relation"
          /\ EdgeOf(st[q]) \in AddedPairs(p)
          /\ RelationCoherent(EdgeOf(st[q]))

-----------------------------------------------------------------------------
(* C20 *)

\* p has run insert_custom_relations twice with the same batch, both runs
\* returning, the entities of the graph the same for both
InsertedTwice(p) ==
    /\ Inserting(p)
    /\ Returned(p)
    /\ prev[p].kind = "insert_custom_relations"
    /\ prev[p].out = "returned"
    /\ prev[p].batch = st[p].batch
    /\ prev[p].pre.nodes = st[p].pre.nodes

\* C20: a second run of insert_custom_relations with the same batch leaves the
\* edges of the graph and the relation vector index, keys and payloads, as the
\* first run left them and returns the same aggregate; the index holds one
\* record for a pair.
C20_InsertIdempotent ==
    \A p \in SeqProcs :
        InsertedTwice(p) =>
            /\ edges = st[p].pre.edges
            /\ rvdb = st[p].pre.rvdb
            /\ nodes = st[p].pre.nodes
            /\ st[p].result = prev[p].result
            /\ \A id1, id2 \in DOMAIN rvdb :
                  (rvdb[id1].src_id = rvdb[id2].src_id /\ rvdb[id1].tgt_id = rvdb[id2].tgt_id)
                      => id1 = id2

\* the batch run twice had an item that was added and an item that was skipped,
\* and the first run changed the graph
C20_Witness ==
    \E p \in SeqProcs :
        /\ InsertedTwice(p)
        /\ st[p].result.total_added >= 1
        /\ st[p].result.total_skipped >= 1
        /\ prev[p].pre.edges # edges
        /\ EventsOf(p, "write", "relationships_vdb") # {}

-----------------------------------------------------------------------------
(* C21 *)

\* C21: update_entity creates no entity: it writes its node and upserts its
\* entity record only while the entity is a node, whatever deletion runs between
\* its has_node check and its writes.
C21_UpdateNeverCreates ==
    [][\A p \in AllProcs :
          /\ (st[p].pc = "ue_upsert_node" /\ st'[p].pc = "ue_vdb_upsert")
                => st[p].name \in DOMAIN nodes
          /\ (st[p].pc = "ue_vdb_upsert" /\ st'[p].pc # "ue_vdb_upsert")
                => st[p].name \in DOMAIN nodes]_vars

\* the part of C21 the code keeps: update_entity goes on to its writes only
\* after has_node has answered that the entity is a node
C21_CheckedBeforeWrite ==
    [][\A p \in AllProcs :
          (st[p].pc = "ue_has_node" /\ st'[p].pc = "ue_get_node")
              => st[p].name \in DOMAIN nodes]_vars

-----------------------------------------------------------------------------
(* C22 *)

\* update_entity was called by p under a name whose canonical form was a node,
\* the node insert_custom_relations and update_relation accept for that name
NamesAnExistingEntity(p) ==
    /\ st[p].kind = "update_entity"
    /\ Format(st[p].name) \in DOMAIN st[p].pre.nodes

\* C22: update_entity addresses an entity by the canonical form of its name, as
\* insert_custom_relations and update_relation do: called under a name whose
\* canonical form is a node, it finds that node, updates it and writes the
\* vector record under the canonical name.
C22_CanonicalKeyEverywhere ==
    \A p \in SeqProcs :
        (NamesAnExistingEntity(p) /\ Returned(p)) =>
            /\ st[p].result.status = "success"
            /\ GraphKeysWritten(p) = {Format(st[p].name)}
            /\ \A m \in Mappings(p, "entities_vdb") :
                  \A id \in DOMAIN m : m[id].entity_name = Format(st[p].name)

\* the part of C22 the code keeps: insert_custom_relations and update_relation
\* write the graph and the relation index under canonical names only
C22_RelationsUseCanonicalKeys ==
    \A p \in SeqProcs :
        (Inserting(p) \/ st[p].kind = "update_relation") =>
            /\ \A e \in GraphKeysWritten(p) :
                  \E a, b \in {<<"a">>, <<"b">>, <<"c">>} : e = <<Format(a), Format(b)>>
            /\ \A m \in Mappings(p, "relationships_vdb") :
                  \A id \in DOMAIN m :
                      \E a, b \in {<<"a">>, <<"b">>, <<"c">>} :
                          /\ m[id].src_id = Format(a)
                          /\ m[id].tgt_id = Format(b)

-----------------------------------------------------------------------------
(* C23 *)

\* insert_custom_relations, as called by p, has ended
InsertEnded(p) == Inserting(p) /\ st[p].pc = "done"

\* C23 as stated: when insert_custom_relations has ended, by returning or by
\* raising, every edge it wrote has its record in the relation vector index.
C23_EdgesHaveRecords ==
    \A p \in SeqProcs :
        InsertEnded(p) => \A e \in GraphKeysWritten(p) : RelationCoherent(e)

\* C23 as amended: when it returns, every edge it wrote has its record; when it
\* raises, it has upserted either no record at all, the relation index being as
\* the call found it, or the records of all the edges it wrote; if it wrote an
\* edge it has invoked finalize on the three stores.
C23_RecordsAllOrNone ==
    \A p \in SeqProcs :
        InsertEnded(p) =>
            /\ Returned(p) => \A e \in GraphKeysWritten(p) : RelationCoherent(e)
            /\ Raised(p) =>
                  IF Mappings(p, "relationships_vdb") = {}
                  THEN rvdb = st[p].pre.rvdb
                  ELSE \A e \in GraphKeysWritten(p) : RelationCoherent(e)
            /\ GraphKeysWritten(p) # {} => Finalized(p) = storage_insts

\* a batch raised after it had written an edge the index has no record of
C23_Witness ==
    \E p \in SeqProcs :
        /\ InsertEnded(p)
        /\ Raised(p)
        /\ rvdb = st[p].pre.rvdb
        /\ \E e \in GraphKeysWritten(p) :
              compute_mdhash_id(e[1] \o e[2], "rel-") \notin DOMAIN rvdb

\* a batch of two pairs returned, each edge with its record
C23_ReturnedReached ==
    \E p \in SeqProcs :
        /\ InsertEnded(p)
        /\ Returned(p)
        /\ Cardinality(GraphKeysWritten(p)) = 2

-----------------------------------------------------------------------------
(* C24 *)

\* the pairs and the entity names the records of a mapping refer to
PairsOf(m) == {<<m[id].src_id, m[id].tgt_id>> : id \in DOMAIN m}
NamesOf(m) == {m[id].entity_name : id \in DOMAIN m}

\* the i-th event of p comes after a graph write of key k by the same call
GraphWrittenBefore(p, i, k) ==
    \E j \in EventsOf(p, "write", "graph") : j < i /\ ev[p][j].k = k

\* C24: with no deletions, in every reachable state, between the steps of a call
\* and after a failed call too, every record of the relation vector index refers
\* to a pair that is an edge of the graph, and every record update_entity has
\* written to the entity vector index refers to a node of the graph; a call writes
\* the graph before it writes the corresponding vector record.
C24_VectorRefersToGraph ==
    /\ PairsOf(rvdb) \subseteq DOMAIN edges
    /\ \A p \in SeqProcs :
          /\ st[p].kind = "update_entity" =>
                \A m \in Mappings(p, "entities_vdb") :
                    /\ NamesOf(m) \subseteq DOMAIN nodes
                    /\ DOMAIN m \subseteq DOMAIN evdb
          /\ \A i \in EventsOf(p, "write", "entities_vdb") :
                \A k \in NamesOf(ev[p][i].k) : GraphWrittenBefore(p, i, k)
          /\ \A i \in EventsOf(p, "write", "relationships_vdb") :
                \A k \in PairsOf(ev[p][i].k) : GraphWrittenBefore(p, i, k)

\* an insertion has upserted the record of an edge it created, after a successful
\* update_entity; and a call has failed between its graph write and its vector write
C24_Witness ==
    \E p \in SeqProcs :
        /\ Inserting(p)
        /\ \E m \in Mappings(p, "relationships_vdb") :
              PairsOf(m) \ DOMAIN st[p].pre.edges # {}
        /\ prev[p].kind = "update_entity"
        /\ ReturnedSuccess(prev[p])

C24_FailedBetweenWrites ==
    \E p \in SeqProcs :
        /\ Raised(p)
        /\ GraphKeysWritten(p) # {}
        /\ Mappings(p, "entities_vdb") \cup Mappings(p, "relationships_vdb") = {}

-----------------------------------------------------------------------------
(* C25 *)

\* the index holds no two records for one pair, for one entity name
OneRecordPerPair(index) ==
    \A i, j \in DOMAIN index :
        (index[i].src_id = index[j].src_id /\ index[i].tgt_id = index[j].tgt_id) => i = j
OneRecordPerName(index) ==
    \A i, j \in DOMAIN index : index[i].entity_name = index[j].entity_name => i = j

\* p has updated, with success, a relation that its previous call, an insertion,
\* had created
UpdatedAfterInsert(p) ==
    /\ st[p].kind = "update_relation"
    /\ st[p].pc = "done"
    /\ ReturnedSuccess(st[p])
    /\ prev[p].kind = "insert_custom_relations"
    /\ prev[p].out = "returned"
    /\ EdgeOf(st[p]) \notin DOMAIN prev[p].pre.edges

\* C25: after any sequence of insert_custom_relations, update_relation and
\* update_entity calls the relation vector index holds at most one record per
\* ordered normalized (src, tgt) pair and the entity vector index at most one per
\* entity name; update_relation of an edge that insert_custom_relations created
\* writes under the key the insertion used, and no stale record stays behind.
C25_OneRecordPerKey ==
    /\ OneRecordPerPair(rvdb)
    /\ OneRecordPerName(evdb)
    /\ \A p \in SeqProcs :
          UpdatedAfterInsert(p) =>
              /\ \A m \in Mappings(p, "relationships_vdb") :
                    DOMAIN m \subseteq DOMAIN st[p].pre.rvdb
              /\ DOMAIN rvdb = DOMAIN st[p].pre.rvdb

\* an insertion created a relation and its record, and update_relation then
\* changed the description and the keywords of that relation
C25_Witness ==
    \E p \in SeqProcs :
        /\ UpdatedAfterInsert(p)
        /\ Mappings(p, "relationships_vdb") # {}
        /\ rvdb[RelId(EdgeOf(st[p])[1], EdgeOf(st[p])[2])]
              # st[p].pre.rvdb[RelId(EdgeOf(st[p])[1], EdgeOf(st[p])[2])]

\* two update_entity calls of one entity, with different descriptions
C25_EntityUpdatedTwice ==
    \E p \in SeqProcs :
        /\ st[p].kind = "update_entity" /\ prev[p].kind = "update_entity"
        /\ st[p].pc = "done"
        /\ ReturnedSuccess(st[p]) /\ ReturnedSuccess(prev[p])
        /\ st[p].name = prev[p].name
        /\ evdb[EntityId(st[p].name)] # st[p].pre.evdb[EntityId(st[p].name)]

-----------------------------------------------------------------------------
(* C26 *)

\* the step of p is the upsert_edge of the item its loop is at
UpsertsItemEdge(p) ==
    /\ Inserting(p)
    /\ st[p].pc = "ic_upsert_edge"
    /\ st'[p].pc # "ic_upsert_edge"
    /\ Len(ev'[p]) = Len(ev[p]) + 1
    /\ ev'[p][Len(ev'[p])].t = "write"

\* C26: when insert_custom_relations processes an item whose edge exists, the
\* attribute map of the edge is replaced, not merged: afterwards it is exactly
\* weight, description, keywords and source_id of the item, weight 1 and source_id
\* CUSTOM_RELATION where the item omits them; other prior attributes and a prior
\* source_id are gone.
C26_InsertReplacesEdge ==
    [][\A p \in SeqProcs :
          UpsertsItemEdge(p) =>
              LET item == st[p].batch[st[p].i]
                  e == PairOf(p, st[p].i)
              IN  /\ e \in DOMAIN edges'
                  /\ DOMAIN edges'[e] = {"weight", "description", "keywords", "source_id"}
                  /\ edges'[e]["description"] = item["description"]
                  /\ edges'[e]["keywords"] = item["keywords"]
                  /\ edges'[e]["weight"] =
                        IF "weight" \in DOMAIN item THEN item["weight"] ELSE 1
                  /\ edges'[e]["source_id"] =
                        IF "source_id" \in DOMAIN item THEN item["source_id"]
                        ELSE CUSTOM_RELATION
                  /\ \A o \in DOMAIN edges \ {e} : edges'[o] = edges[o]]_vars

\* an insertion has written an edge that had a file_path and a source_id of its
\* own, from an item that gives no source_id: the edge has the four attributes only
C26_Witness ==
    \E p \in SeqProcs :
        /\ Inserting(p)
        /\ \E j \in DOMAIN st[p].batch :
              LET e == PairOf(p, j)
              IN  /\ e \in GraphKeysWritten(p)
                  /\ e \in DOMAIN st[p].pre.edges
                  /\ "file_path" \in DOMAIN st[p].pre.edges[e]
                  /\ st[p].pre.edges[e]["source_id"] = S0
                  /\ "source_id" \notin DOMAIN st[p].batch[j]
                  /\ "file_path" \notin DOMAIN edges[e]
                  /\ edges[e]["source_id"] = CUSTOM_RELATION

-----------------------------------------------------------------------------
(* C27 *)

\* the route of p has answered a body in which a relation lacks a required field
InvalidBodyAnswered(p) ==
    /\ st[p].route
    /\ st[p].http # NoResponse
    /\ FirstInvalid(st[p].batch) # 0

\* C27: POST /kg/relations validates every item before any insertion: if an item
\* lacks one of src_id, tgt_id, description, keywords, the request is rejected
\* with HTTP status 400 naming the missing fields, the insertion is not called and
\* no relation of the batch, well-formed ones included, is written.
C27_InvalidBodyRejectedWith400 ==
    \A p \in SeqProcs :
        InvalidBodyAnswered(p) =>
            /\ st[p].http.status_code = 400
            /\ \A f \in Range(MissingFields(st[p].batch[FirstInvalid(st[p].batch)])) :
                  f \in Range(st[p].http.detail)
            /\ st[p].kind # "insert_custom_relations"
            /\ ev[p] = <<>>
            /\ Snapshot = st[p].pre

\* what holds of the rejection: the insertion is not called, nothing is written,
\* the answer names the missing fields, with status 500
C27_InvalidBodyNotInserted ==
    \A p \in SeqProcs :
        InvalidBodyAnswered(p) =>
            /\ st[p].http.status_code = 500
            /\ \A f \in Range(MissingFields(st[p].batch[FirstInvalid(st[p].batch)])) :
                  f \in Range(st[p].http.detail)
            /\ st[p].kind # "insert_custom_relations"
            /\ ev[p] = <<>>
            /\ Snapshot = st[p].pre

\* a body with a well-formed relation before the one that lacks a field
C27_WellFormedBeforeInvalid ==
    \E p \in SeqProcs :
        /\ InvalidBodyAnswered(p)
        /\ FirstInvalid(st[p].batch) > 1

-----------------------------------------------------------------------------
(* C28, C29, C30 *)

\* requests have run and none is in flight
AllFinished ==
    /\ \E r \in Requests : req[r].pc = "done"
    /\ \A r \in Requests : ~InFlight(r)

\* C28: the retrieval endpoint restores the shared namespace prefix: once every
\* in-flight retrieval request has finished, by success, error response or
\* exception, rag.namespace_prefix is what it was before the first of them started,
\* for any number of concurrent requests and any interleaving of their steps.
C28_PrefixRestored == AllFinished => namespace_prefix = P0

\* a request that found the prefix rag was built with puts it back
C28_RestoresWhatItSaved ==
    [][\A r \in Requests :
          (req[r].pc = "aquery_resumed" /\ req'[r].pc = "done"
           /\ req[r].original_prefix = P0) => namespace_prefix' = P0]_vars

\* C29: for every retrieval request the namespace prefix in effect during the
\* whole of its query, from the start of rag.aquery until its result is produced,
\* is the knowledge_id of that request, also when requests with other
\* knowledge_id values run concurrently.
C29_QueryUnderOwnPrefix ==
    \A r \in Requests : req[r].seen \subseteq {req[r].knowledge_id}

\* C30: the retrieval endpoint leaves the cosine_better_than_threshold entry of
\* rag.vector_db_storage_cls_kwargs as it found it: after the requests have
\* finished, on any exit path, the entry has the value it had before them, or is
\* absent if it was absent; no score_threshold of a request persists.
C30_ThresholdRestored ==
    [][\A r \in Requests :
          (req[r].pc = "aquery_resumed" /\ req'[r].pc = "done"
           /\ \A o \in Requests \ {r} : ~InFlight(o))
              => cosine_better_than_threshold' = req[r].before]_vars

\* the entry was there, and the requests did not overlap: it is restored
C30_RestoredWhenPresentAndAlone ==
    [][\A r \in Requests :
          (req[r].pc = "aquery_resumed" /\ req'[r].pc = "done"
           /\ req[r].original_threshold # None
           /\ req[r].original_threshold = req[r].before)
              => cosine_better_than_threshold' = req[r].before]_vars

====
